---- MODULE Spec2Model ----
(***************************************************************************)
(* A model of the indicator / labeling / backtest pipeline of the Compass  *)
(* training scripts:                                                       *)
(*   scripts/train_lstm_signal.py      create_sequences                    *)
(*   scripts/train_multi_timeframe.py  create_labels                       *)
(*   scripts/backtest_models.py        strategies, calculate_metrics, main *)
(*                                                                         *)
(* Arrays keep Python's 0-based indices: an array of length n is a         *)
(* function with domain 0..n-1.  Floating-point values are modelled as     *)
(* exact rationals <<num, den>> (den > 0) extended with the IEEE values    *)
(* +inf, -inf and nan that numpy produces on a division by zero; binary    *)
(* rounding error of float64 is not modelled.                              *)
(***************************************************************************)
EXTENDS Integers, Sequences, FiniteSets, TLC

VARIABLES
  fn,            \* which labeling function runs: "create_sequences" | "create_labels"
  closes,        \* the close-price array (0-based)
  seq_length,    \* create_sequences parameter seq_length
  look_ahead,    \* create_sequences look_ahead / create_labels lookahead_candles
  i,             \* the loop index of the running function
  sequences,     \* create_sequences: the list `sequences`, each a list of feature-row indices
  labels,        \* the list `labels`
  anchors,       \* history: the loop index at which each label was appended
  close_reads,   \* history: the indices of `closes` read so far
  pc,            \* "loop" | "returned" | "IndexError" ("idle" outside SpecLabels)
  data,          \* backtest: the Close column of the fetched candle array (0-based)
  strategy,      \* backtest: the name of the strategy that ran
  result,        \* backtest: what the strategy returned: (predictions, actuals) or (None, None)
  metrics,       \* backtest: what calculate_metrics returned: <<row>>, or <<>> for None
  spc,           \* backtest strategy run: "start" | "ran" | "done" ("idle" elsewhere)
  asset_idx,     \* main: the position in ASSETS of the loop `for asset in ASSETS`
  results,       \* main: the list `results` of metrics rows
  log,           \* main: the [SKIP] / [ERROR] lines printed, as <<asset, message>>
  evaluated,     \* history: <<asset, strategy, n>> for each list of n pairs a strategy returned
  summary,       \* main: the lines of the strategy performance summary
  saved,         \* main: the content written to models/backtest_results.json, <<>> before
  verdict,       \* main: "SUCCESS" | "FAILURE" | "none" (nothing printed)
  mpc,           \* main: "loop" | "done" | "KeyError" ("idle" elsewhere)
  ifn,           \* which indicator function runs: "calculate_technical_indicators" | "calculate_features"
  ohlcv,         \* the candle array (0-based) of records [high, low, close, volume]
  features,      \* the feature matrix built so far (0-based array of 11-value rows)
  ind_i,         \* the loop index `i` of the running indicator function
  ipc,           \* "start" | "loop" | "returned" | "IndexError" ("idle" elsewhere)
  train_X,       \* train_model: X = features[:min_len]
  train_y,       \* train_model: y = labels[:min_len]
  apc,           \* train_model: "aligned" once X and y are cut ("idle" before)
  price_data,    \* price trainers: the Close column of the `data` of create_sequences (0-based)
  price_seq_length,\* price trainers: create_sequences parameter seq_length
  price_i,       \* price trainers: the loop index `i` of create_sequences
  xs,            \* price trainers: the list `xs`, each window a list of indices of data
  ys,            \* price trainers: the list `ys` of targets, each [index, value]
  price_pc,      \* price trainers: "loop" | "returned" | "IndexError" ("idle" elsewhere)
  epoch,         \* train_lstm_model: the number of epochs of `for epoch in range(EPOCHS)` completed
  best_val_acc,  \* train_lstm_model: best_val_acc, in percent
  model_path,    \* train_lstm_model: the local model_path, "unbound" until assigned
  checkpoint,    \* train_lstm_model: the epoch (from 1) whose state_dict the saved file holds, 0 for no file
  val_history,   \* history: the val_acc of each completed epoch
  tpc,           \* train_lstm_model: "loop" | "done" | "UnboundLocalError" ("idle" elsewhere)
  history_prices,\* 24h trainer: the list history_prices; a price is held as its fetch number (1 for the first price fetched)
  is_fitted,     \* 24h trainer: the global is_fitted
  model_file,    \* 24h trainer: the file at ONNX_PATH: [content, version], version = the prices fetched when it was written
  fetched,       \* history: the number of prices fetched so far
  export_failures,\* history: the number of exports that failed so far
  step_outcome,  \* history: how the last train_step ended ("none" before the first)
  loop_pc        \* 24h trainer main: "running" | "crashed" ("idle" elsewhere)

seqVars == <<fn, closes, seq_length, look_ahead, i, sequences, labels, anchors,
             close_reads, pc>>
stratVars == <<data, strategy, result, metrics, spc>>
mainVars == <<asset_idx, results, log, evaluated, summary, saved, verdict, mpc>>
indVars == <<ifn, ohlcv, features, ind_i, ipc>>
alignVars == <<train_X, train_y, apc>>
priceVars == <<price_data, price_seq_length, price_i, xs, ys, price_pc>>
lstmVars == <<epoch, best_val_acc, model_path, checkpoint, val_history, tpc>>
trainerVars == <<history_prices, is_fitted, model_file, fetched, export_failures, step_outcome, loop_pc>>

----------------------------------------------------------------------------
(* Bounds of the model *)

\* the number of candles after the warm-up prefix whose closes vary freely
MaxTail == 5
\* the largest seq_length tried
MaxSeqLength == 2
\* the largest look_ahead / lookahead_candles tried
MaxLookAhead == 2
\* the largest number of (predicted, actual) pairs handed to calculate_metrics
MaxPairs == 4
\* the largest number of predictions a strategy makes on the candle arrays tried
MaxPredictions == 3
\* the same for the candle arrays main fetches
MaxBacktestPredictions == 2
\* the number of candles after the warm-up prefix that vary freely in the
\* candle arrays handed to the indicator functions
MaxIndTail == 3
\* the largest number of samples of a train_model run over the timeframe map
MaxAlignTail == 2
\* the number of candles after the first window that vary freely in the
\* arrays handed to the price trainers' create_sequences
MaxPriceTail == 3
\* the number of epochs of the training loop (EPOCHS, 50 in the script)
MaxEpochs == 4
\* the largest number of prices fetched in a run of the 24h trainer (its
\* loop runs for 24 hours, a step a minute)
MaxFetches == 1003
\* the largest number of exports that fail in a run of the 24h trainer
MaxExportFailures == 2

----------------------------------------------------------------------------
(* Program constants *)

\* train_lstm_signal.py: start_idx = 200
start_idx == 200
\* train_multi_timeframe.py: range(200, ...)
label_start == 200
SELL == 0
HOLD == 1
BUY == 2

\* label thresholds as rationals <<num, den>>: 0.15 and 2.0
SequencesThreshold == <<15, 100>>
LabelsThreshold == <<2, 1>>

\* Close prices tried.  For the 0.15 % threshold 2000 -> 2003 is exactly
\* +0.15 %, 2000 -> 1997 exactly -0.15 %, 1997 -> 2000 just above and
\* 2003 -> 1997 below; for the 2 % threshold 50 -> 51 is exactly +2 %,
\* 50 -> 49 exactly -2 %, 49 -> 50 just above, 51 -> 49 below.
SequencesPrices == {0, 1997, 2000, 2003}
LabelsPrices == {0, 49, 50, 51}

Prices(f) == IF f = "create_sequences" THEN SequencesPrices ELSE LabelsPrices
BasePrice(f) == IF f = "create_sequences" THEN 2000 ELSE 50

----------------------------------------------------------------------------
(* Python / numpy helpers *)

Len0(a) == Cardinality(DOMAIN a)

Min(a, b) == IF a < b THEN a ELSE b
Max(a, b) == IF a > b THEN a ELSE b

\* a[lo:hi] on an array of n rows: the indices selected, in order
SliceBound(x, n) == IF x < 0 THEN Max(x + n, 0) ELSE Min(x, n)
SliceIndices(lo, hi, n) ==
  LET l == SliceBound(lo, n)
      h == SliceBound(hi, n)
  IN  [k \in 1 .. Max(h - l, 0) |-> l + k - 1]

\* float64 values: finite rationals and the IEEE specials
Fin(n, d) == [kind |-> "fin", num |-> n, den |-> d]
PInf == [kind |-> "+inf", num |-> 0, den |-> 1]
NInf == [kind |-> "-inf", num |-> 0, den |-> 1]
NaN == [kind |-> "nan", num |-> 0, den |-> 1]

\* x / y on numpy float64 scalars holding the integers x and y: a zero
\* divisor gives +-inf or nan (a RuntimeWarning, no exception)
FloatDiv(x, y) ==
  IF y = 0 THEN (IF x > 0 THEN PInf ELSE IF x < 0 THEN NInf ELSE NaN)
  ELSE IF y > 0 THEN Fin(x, y) ELSE Fin(-x, -y)

\* r * k for an integer k > 0
FloatTimes(r, k) == IF r.kind = "fin" THEN Fin(r.num * k, r.den) ELSE r

\* r > t and r < -t for a threshold t = <<num, den>>; every comparison
\* with nan is false
FloatGreater(r, t) ==
  CASE r.kind = "fin" -> r.num * t[2] > t[1] * r.den
    [] r.kind = "+inf" -> TRUE
    [] OTHER -> FALSE

FloatLessNeg(r, t) ==
  CASE r.kind = "fin" -> r.num * t[2] < (-t[1]) * r.den
    [] r.kind = "-inf" -> TRUE
    [] OTHER -> FALSE

----------------------------------------------------------------------------
(* Labeling: create_sequences and create_labels *)

\* what a backtest strategy returns: (predictions, actuals) or (None, None)
NoneResult == [ok |-> FALSE, predictions |-> <<>>, actuals |-> <<>>]
Returned(p, a) == [ok |-> TRUE, predictions |-> p, actuals |-> a]

\* the return as a fraction, without the factor 100.0
FutureReturnFraction(current_price, future_price) ==
  FloatDiv(future_price - current_price, current_price)

\* (future_price - current_price) / current_price * 100.0
FutureReturn(current_price, future_price) ==
  FloatTimes(FloatDiv(future_price - current_price, current_price), 100)

\* the chain with non-strict comparisons
LabelOfInclusive(future_return, threshold) ==
  IF ~FloatLessNeg(future_return, <<-threshold[1], threshold[2]>>)
     /\ future_return.kind # "nan" THEN BUY
  ELSE IF ~FloatGreater(future_return, <<-threshold[1], threshold[2]>>)
          /\ future_return.kind # "nan" THEN SELL
  ELSE HOLD

\* the chain with a memory: a return inside the band keeps the label of the
\* previous anchor
LabelOfSticky(future_return, threshold) ==
  IF FloatGreater(future_return, threshold) THEN BUY
  ELSE IF FloatLessNeg(future_return, threshold) THEN SELL
  ELSE IF labels # <<>> THEN labels[Len(labels)]
  ELSE HOLD

\* the if / elif / else chain of both functions
LabelOf(future_return, threshold) ==
  IF FloatGreater(future_return, threshold) THEN BUY
  ELSE IF FloatLessNeg(future_return, threshold) THEN SELL
  ELSE HOLD

Threshold(f) == IF f = "create_sequences" THEN SequencesThreshold ELSE LabelsThreshold

\* a[k] with Python's index rule: -n <= k < n, a negative k counts from the end
ValidIndex(a, k) == -Len0(a) <= k /\ k < Len0(a)
At(a, k) == a[IF k < 0 THEN k + Len0(a) ELSE k]

\* the range started at start_idx, without the seq_length offset
SequencesRangeNoSeqLength(n, s, h) == [start |-> start_idx, stop |-> n - h]

\* the range run to len(closes), without the look_ahead margin
SequencesRangeNoLookAhead(n, s, h) == [start |-> start_idx + s, stop |-> n]

\* range(start_idx + seq_length, len(closes) - look_ahead) of create_sequences
SequencesRange(n, s, h) == [start |-> start_idx + s, stop |-> n - h]

\* range(200, len(closes) - lookahead_candles) of create_labels
LabelsRange(n, h) == [start |-> label_start, stop |-> n - h]

LoopRange(f, n, s, h) ==
  IF f = "create_sequences" THEN SequencesRange(n, s, h) ELSE LabelsRange(n, h)

\* the close arrays tried: n candles, the first start_idx of them at the
\* base price (neither function reads them), the rest free
CloseArrays(f) ==
  { [k \in 0 .. (n - 1) |-> BasePrice(f)] : n \in 0 .. start_idx }
  \cup
  UNION { { [k \in 0 .. (start_idx + t - 1) |->
               IF k < start_idx THEN BasePrice(f) ELSE tail[k - start_idx + 1]] :
            tail \in [1 .. t -> Prices(f)] } : t \in 1 .. MaxTail }

SeqInit ==
  /\ fn \in {"create_sequences", "create_labels"}
  /\ closes \in CloseArrays(fn)
  /\ look_ahead \in 1 .. MaxLookAhead
  /\ seq_length \in IF fn = "create_sequences" THEN 1 .. MaxSeqLength ELSE {0}
  /\ i = LoopRange(fn, Len0(closes), seq_length, look_ahead).start
  /\ sequences = <<>>
  /\ labels = <<>>
  /\ anchors = <<>>
  /\ close_reads = {}
  /\ pc = "loop"
  /\ data = <<>>
  /\ strategy = "none"
  /\ result = NoneResult
  /\ metrics = <<>>
  /\ spc = "idle"
  /\ asset_idx = 0
  /\ results = <<>>
  /\ log = <<>>
  /\ evaluated = {}
  /\ summary = <<>>
  /\ saved = <<>>
  /\ verdict = "none"
  /\ mpc = "idle"
  /\ ifn = "none"
  /\ ohlcv = <<>>
  /\ features = <<>>
  /\ ind_i = 0
  /\ ipc = "idle"
  /\ train_X = <<>>
  /\ train_y = <<>>
  /\ apc = "idle"
  /\ price_data = <<>>
  /\ price_seq_length = 0
  /\ price_i = 0
  /\ xs = <<>>
  /\ ys = <<>>
  /\ price_pc = "idle"
  /\ epoch = 0
  /\ best_val_acc = 0
  /\ model_path = "unbound"
  /\ checkpoint = 0
  /\ val_history = <<>>
  /\ tpc = "idle"
  /\ history_prices = <<>>
  /\ is_fitted = FALSE
  /\ model_file = [content |-> "none", version |-> 0]
  /\ fetched = 0
  /\ export_failures = 0
  /\ step_outcome = "none"
  /\ loop_pc = "idle"

\* one iteration of `for i in range(start_idx + seq_length, len(closes) - look_ahead)`;
\* an index outside the array raises IndexError
CreateSequencesStep ==
  /\ fn = "create_sequences"
  /\ pc = "loop"
  /\ i < SequencesRange(Len0(closes), seq_length, look_ahead).stop
  /\ close_reads' = close_reads \cup {i, i + look_ahead}
  /\ IF ValidIndex(closes, i) /\ ValidIndex(closes, i + look_ahead)
     THEN LET seq == SliceIndices(i - seq_length, i, Len0(closes))
              current_price == At(closes, i)
              future_price == At(closes, i + look_ahead)
              future_return == FutureReturn(current_price, future_price)
              label == LabelOf(future_return, SequencesThreshold)
          IN  /\ sequences' = Append(sequences, seq)
              /\ labels' = Append(labels, label)
              /\ anchors' = Append(anchors, i)
              /\ i' = i + 1
              /\ pc' = pc
     ELSE /\ pc' = "IndexError"
          /\ UNCHANGED <<i, sequences, labels, anchors>>
  /\ UNCHANGED <<fn, closes, seq_length, look_ahead>>
  /\ UNCHANGED stratVars
  /\ UNCHANGED mainVars
  /\ UNCHANGED indVars
  /\ UNCHANGED alignVars
  /\ UNCHANGED priceVars
  /\ UNCHANGED lstmVars
  /\ UNCHANGED trainerVars

\* the range is exhausted: return np.array(sequences), np.array(labels)
CreateSequencesReturn ==
  /\ fn = "create_sequences"
  /\ pc = "loop"
  /\ ~(i < SequencesRange(Len0(closes), seq_length, look_ahead).stop)
  /\ pc' = "returned"
  /\ UNCHANGED <<fn, closes, seq_length, look_ahead, i, sequences, labels, anchors,
                 close_reads>>
  /\ UNCHANGED stratVars
  /\ UNCHANGED mainVars
  /\ UNCHANGED indVars
  /\ UNCHANGED alignVars
  /\ UNCHANGED priceVars
  /\ UNCHANGED lstmVars
  /\ UNCHANGED trainerVars

\* one iteration of `for i in range(200, len(closes) - lookahead_candles)`
CreateLabelsStep ==
  /\ fn = "create_labels"
  /\ pc = "loop"
  /\ i < LabelsRange(Len0(closes), look_ahead).stop
  /\ close_reads' = close_reads \cup {i, i + look_ahead}
  /\ IF ValidIndex(closes, i) /\ ValidIndex(closes, i + look_ahead)
     THEN LET future_price == At(closes, i + look_ahead)
              current_price == At(closes, i)
              price_change == FutureReturn(current_price, future_price)
          IN  /\ labels' = Append(labels, LabelOf(price_change, LabelsThreshold))
              /\ anchors' = Append(anchors, i)
              /\ i' = i + 1
              /\ pc' = pc
     ELSE /\ pc' = "IndexError"
          /\ UNCHANGED <<i, labels, anchors>>
  /\ UNCHANGED <<fn, closes, seq_length, look_ahead, sequences>>
  /\ UNCHANGED stratVars
  /\ UNCHANGED mainVars
  /\ UNCHANGED indVars
  /\ UNCHANGED alignVars
  /\ UNCHANGED priceVars
  /\ UNCHANGED lstmVars
  /\ UNCHANGED trainerVars

\* the range is exhausted: return np.array(labels)
CreateLabelsReturn ==
  /\ fn = "create_labels"
  /\ pc = "loop"
  /\ ~(i < LabelsRange(Len0(closes), look_ahead).stop)
  /\ pc' = "returned"
  /\ UNCHANGED <<fn, closes, seq_length, look_ahead, i, sequences, labels, anchors,
                 close_reads>>
  /\ UNCHANGED stratVars
  /\ UNCHANGED mainVars
  /\ UNCHANGED indVars
  /\ UNCHANGED alignVars
  /\ UNCHANGED priceVars
  /\ UNCHANGED lstmVars
  /\ UNCHANGED trainerVars

SeqNext ==
  \/ CreateSequencesStep
  \/ CreateSequencesReturn
  \/ CreateLabelsStep
  \/ CreateLabelsReturn

----------------------------------------------------------------------------
(* Backtest: the three strategies and calculate_metrics *)

\* backtest_models.py: SEQ_LENGTH = 30, and the literal 30 of the two baselines
SEQ_LENGTH == 30
heuristic_start == 30
buyhold_start == 30

\* r1 > r2 on float64 values (finite or nan)
FloatGreaterThan(r1, r2) ==
  IF r1.kind = "fin" /\ r2.kind = "fin" THEN r1.num * r2.den > r2.num * r1.den
  ELSE FALSE

RECURSIVE SumSeq(_)
SumSeq(q) == IF q = <<>> THEN 0 ELSE q[1] + SumSeq(Tail(q))

\* np.mean(a[lo:hi]): the sum over the slice divided by its length, nan when empty
MeanOfSlice(a, lo, hi) ==
  LET idx == SliceIndices(lo, hi, Len0(a))
  IN  IF Len(idx) = 0 THEN NaN
      ELSE Fin(SumSeq([k \in 1 .. Len(idx) |-> a[idx[k]]]), Len(idx))

\* range(lo, hi) as a list
RangeList(lo, hi) == [k \in 1 .. Max(hi - lo, 0) |-> lo + k - 1]

\* a tie counted as an upward move
ActualDirectionTieUp(d, k) == IF At(d, k + 1) >= At(d, k) THEN 1 ELSE -1

\* actual_direction = 1 if data[i+1, 0] > data[i, 0] else -1
ActualDirection(d, k) == IF At(d, k + 1) > At(d, k) THEN 1 ELSE -1

\* heuristic_strategy: predicted_direction = 1 if sma_short > sma_long else -1
HeuristicPrediction(d, k) ==
  LET sma_short == MeanOfSlice(d, k - 5, k)
      sma_long == MeanOfSlice(d, k - 20, k)
  IN  IF FloatGreaterThan(sma_short, sma_long) THEN 1 ELSE -1

\* ai_strategy: the model's output compared with the current scaled price, or
\* the fallback 0 when inference raises; the model is external, so the
\* outcome is an input: "above" | "not_above" | "raise"
AiPrediction(outcome) ==
  IF outcome = "raise" THEN 0 ELSE IF outcome = "above" THEN 1 ELSE -1

\* the heuristic started at 20, the look-back of its long average
heuristic_strategy_from_20(d) ==
  LET idx == RangeList(20, Len0(d) - 1)
  IN  Returned([k \in 1 .. Len(idx) |-> HeuristicPrediction(d, idx[k])],
               [k \in 1 .. Len(idx) |-> ActualDirection(d, idx[k])])

heuristic_strategy(d) ==
  LET idx == RangeList(heuristic_start, Len0(d) - 1)
  IN  Returned([k \in 1 .. Len(idx) |-> HeuristicPrediction(d, idx[k])],
               [k \in 1 .. Len(idx) |-> ActualDirection(d, idx[k])])

\* the baseline predicting -1 (always short) instead of +1
buyhold_strategy_short(d) ==
  LET idx == RangeList(buyhold_start, Len0(d) - 1)
  IN  Returned([k \in 1 .. Len(idx) |-> -1],
               [k \in 1 .. Len(idx) |-> ActualDirection(d, idx[k])])

buyhold_strategy(d) ==
  LET idx == RangeList(buyhold_start, Len0(d) - 1)
  IN  Returned([k \in 1 .. Len(idx) |-> 1],
               [k \in 1 .. Len(idx) |-> ActualDirection(d, idx[k])])

\* the number of inferences ai_strategy runs on d
AiCount(d) == Len(RangeList(SEQ_LENGTH, Len0(d) - 1))

\* a missing artifact treated as a model that always predicts 0
ai_strategy_no_skip(model_exists, scaler_exists, session_loads, d, outcomes) ==
  LET idx == RangeList(SEQ_LENGTH, Len0(d) - 1)
  IN  Returned([k \in 1 .. Len(idx) |-> 0],
               [k \in 1 .. Len(idx) |-> ActualDirection(d, idx[k])])

\* ai_strategy: (None, None) when the model file or the scaler file is missing
\* or the ONNX session fails to load; otherwise one prediction per index
ai_strategy(model_exists, scaler_exists, session_loads, d, outcomes) ==
  IF ~model_exists THEN NoneResult
  ELSE IF ~scaler_exists THEN NoneResult
  ELSE IF ~session_loads THEN NoneResult
  ELSE LET idx == RangeList(SEQ_LENGTH, Len0(d) - 1)
       IN  Returned([k \in 1 .. Len(idx) |-> AiPrediction(outcomes[k])],
                    [k \in 1 .. Len(idx) |-> ActualDirection(d, idx[k])])

\* the loop indices of a strategy: range(SEQ_LENGTH, len(scaled_data) - 1) in
\* ai_strategy, range(30, len(data) - 1) in the two baselines
StrategyRange(name, d) ==
  IF name = "AI Model" THEN RangeList(SEQ_LENGTH, Len0(d) - 1)
  ELSE IF name = "Heuristic" THEN RangeList(heuristic_start, Len0(d) - 1)
  ELSE RangeList(buyhold_start, Len0(d) - 1)

\* the rows a loop pass at index k reads by a plain index: data[i+1, 0] and
\* data[i, 0] (ai_strategy reads scaled_data[i, 0] as well)
IndexReads(name, d) ==
  LET idx == StrategyRange(name, d)
  IN  UNION { {idx[k], idx[k] + 1} : k \in 1 .. Len(idx) }

\* the slices data[lo:hi] a loop pass reads, as <<lo, hi>>:
\* scaled_data[i-SEQ_LENGTH:i] in ai_strategy, data[i-5:i] and data[i-20:i]
\* in heuristic_strategy, none in buyhold_strategy
SliceReads(name, d) ==
  LET idx == StrategyRange(name, d)
  IN  IF name = "AI Model"
      THEN { <<idx[k] - SEQ_LENGTH, idx[k]>> : k \in 1 .. Len(idx) }
      ELSE IF name = "Heuristic"
      THEN UNION { { <<idx[k] - 5, idx[k]>>, <<idx[k] - 20, idx[k]>> } :
                   k \in 1 .. Len(idx) }
      ELSE {}

\* round(x, 2) of the rational x = num / den (den > 0), returned in hundredths
\* (100 * x rounded to an integer): to the nearest, a tie to the even one
Round2(num, den) ==
  LET q == (100 * num) \div den
      r == (100 * num) % den
  IN  IF 2 * r > den THEN q + 1
      ELSE IF 2 * r < den THEN q
      ELSE IF q % 2 = 0 THEN q ELSE q + 1

\* the zip stopped one pair early
ZipDropLast(p, a) == [k \in 1 .. (Min(Len(p), Len(a)) - 1) |-> <<p[k], a[k]>>]

\* zip(predictions, actuals)
Zip(p, a) == [k \in 1 .. Min(Len(p), Len(a)) |-> <<p[k], a[k]>>]

\* round((correct / len(predictions)) * 100, 2), in hundredths of a percent
Accuracy(correct, total) == Round2(correct * 100, total)

RECURSIVE Compound(_)
Compound(returns) ==
  IF returns = <<>> THEN 1 ELSE (100 + returns[1]) * Compound(Tail(returns))

\* the returns compounded, (1 + r1)(1 + r2)... - 1, instead of summed
TotalReturnCompounded(returns) ==
  Round2((Compound(returns) - 100 ^ Len(returns)) * 100, 100 ^ Len(returns))

\* round(sum(returns) * 100, 2), in hundredths of a percent; `returns` holds
\* +0.01 / -0.01 as +1 / -1 hundredths
TotalReturn(returns) == Round2(SumSeq(returns) * 100, 100)

\* a prediction of 0 compared by sign agreement only when non-zero is skipped:
\* the pair counted as correct
PairCorrectZeroPasses(pr) == pr[1] = pr[2] \/ pr[1] = 0

\* p == a
PairCorrect(pr) == pr[1] = pr[2]

\* calculate_metrics: None (<<>>) for no predictions, else the metrics row;
\* accuracy and total_return are held in hundredths of a percent
calculate_metrics(res, strategy_name, asset) ==
  IF ~res.ok \/ Len(res.predictions) = 0 THEN <<>>
  ELSE LET pairs == Zip(res.predictions, res.actuals)
           correct == SumSeq([k \in 1 .. Len(pairs) |->
                                IF PairCorrect(pairs[k]) THEN 1 ELSE 0])
           returns == [k \in 1 .. Len(pairs) |->
                         IF PairCorrect(pairs[k]) THEN 1 ELSE -1]
       IN  << [asset |-> asset,
               strategy |-> strategy_name,
               accuracy |-> Accuracy(correct, Len(res.predictions)),
               total_return |-> TotalReturn(returns),
               num_predictions |-> Len(res.predictions)] >>

StrategyNames == {"AI Model", "Heuristic", "Buy & Hold"}

\* close prices of the candle arrays tried
StrategyPrices == {1, 2, 3}

\* the candle arrays tried: from_idx candles at the lowest price followed by
\* up to max_len - from_idx candles with free prices, and (when with_short)
\* every shorter array at the lowest price
DataArrays(with_short, max_len, from_idx, prices) ==
  (IF with_short THEN { [k \in 0 .. (n - 1) |-> 1] : n \in 0 .. from_idx } ELSE {})
  \cup
  UNION { { [k \in 0 .. (from_idx + t - 1) |->
               IF k < from_idx THEN 1 ELSE tail[k - from_idx + 1]] :
            tail \in [1 .. t -> prices] } : t \in 1 .. (max_len - from_idx) }

\* n closes that rise from the base price by steps[1] and steps[2] in turn
RisingArray(n, base, steps) ==
  [k \in 0 .. (n - 1) |->
     base + (steps[1] + steps[2]) * (k \div 2) + steps[1] * (k % 2)]

RisingSteps == {<<1, 1>>, <<2, 2>>, <<1, 3>>}

\* the strictly increasing candle arrays tried, from one too short for a
\* prediction up to MaxPredictions predictions
RisingData ==
  { RisingArray(n, 1, steps) :
      n \in (SEQ_LENGTH + 1) .. (SEQ_LENGTH + 1 + MaxPredictions),
      steps \in RisingSteps }

StrategyData ==
  DataArrays(TRUE, SEQ_LENGTH + 1 + MaxPredictions, SEQ_LENGTH - 1, StrategyPrices)
    \cup RisingData

\* a strategy is about to run on freshly fetched candles
StratInit ==
  /\ data \in StrategyData
  /\ strategy = "none"
  /\ result = NoneResult
  /\ metrics = <<>>
  /\ spc = "start"
  /\ fn = "none"
  /\ closes = <<>>
  /\ look_ahead = 0
  /\ seq_length = 0
  /\ i = 0
  /\ sequences = <<>>
  /\ labels = <<>>
  /\ anchors = <<>>
  /\ close_reads = {}
  /\ pc = "idle"
  /\ asset_idx = 0
  /\ results = <<>>
  /\ log = <<>>
  /\ evaluated = {}
  /\ summary = <<>>
  /\ saved = <<>>
  /\ verdict = "none"
  /\ mpc = "idle"
  /\ ifn = "none"
  /\ ohlcv = <<>>
  /\ features = <<>>
  /\ ind_i = 0
  /\ ipc = "idle"
  /\ train_X = <<>>
  /\ train_y = <<>>
  /\ apc = "idle"
  /\ price_data = <<>>
  /\ price_seq_length = 0
  /\ price_i = 0
  /\ xs = <<>>
  /\ ys = <<>>
  /\ price_pc = "idle"
  /\ epoch = 0
  /\ best_val_acc = 0
  /\ model_path = "unbound"
  /\ checkpoint = 0
  /\ val_history = <<>>
  /\ tpc = "idle"
  /\ history_prices = <<>>
  /\ is_fitted = FALSE
  /\ model_file = [content |-> "none", version |-> 0]
  /\ fetched = 0
  /\ export_failures = 0
  /\ step_outcome = "none"
  /\ loop_pc = "idle"

RunHeuristic ==
  /\ spc = "start"
  /\ strategy' = "Heuristic"
  /\ result' = heuristic_strategy(data)
  /\ spc' = "ran"
  /\ UNCHANGED <<data, metrics>>
  /\ UNCHANGED seqVars
  /\ UNCHANGED mainVars
  /\ UNCHANGED indVars
  /\ UNCHANGED alignVars
  /\ UNCHANGED priceVars
  /\ UNCHANGED lstmVars
  /\ UNCHANGED trainerVars

RunBuyHold ==
  /\ spc = "start"
  /\ strategy' = "Buy & Hold"
  /\ result' = buyhold_strategy(data)
  /\ spc' = "ran"
  /\ UNCHANGED <<data, metrics>>
  /\ UNCHANGED seqVars
  /\ UNCHANGED mainVars
  /\ UNCHANGED indVars
  /\ UNCHANGED alignVars
  /\ UNCHANGED priceVars
  /\ UNCHANGED lstmVars
  /\ UNCHANGED trainerVars

RunAi ==
  /\ spc = "start"
  /\ strategy' = "AI Model"
  /\ \E model_exists \in BOOLEAN, scaler_exists \in BOOLEAN, session_loads \in BOOLEAN :
       \E outcomes \in [1 .. AiCount(data) -> {"above", "not_above", "raise"}] :
         result' = ai_strategy(model_exists, scaler_exists, session_loads, data, outcomes)
  /\ spc' = "ran"
  /\ UNCHANGED <<data, metrics>>
  /\ UNCHANGED seqVars
  /\ UNCHANGED mainVars
  /\ UNCHANGED indVars
  /\ UNCHANGED alignVars
  /\ UNCHANGED priceVars
  /\ UNCHANGED lstmVars
  /\ UNCHANGED trainerVars

\* calculate_metrics(predictions, actuals, strategy_name, asset)
CalculateMetrics ==
  /\ spc = "ran"
  /\ metrics' = calculate_metrics(result, strategy, "BTC")
  /\ spc' = "done"
  /\ UNCHANGED <<data, strategy, result>>
  /\ UNCHANGED seqVars
  /\ UNCHANGED mainVars
  /\ UNCHANGED indVars
  /\ UNCHANGED alignVars
  /\ UNCHANGED priceVars
  /\ UNCHANGED lstmVars
  /\ UNCHANGED trainerVars

StratNext ==
  \/ RunHeuristic
  \/ RunBuyHold
  \/ RunAi
  \/ CalculateMetrics

\* calculate_metrics on arbitrary (predicted, actual) pairs
PairLists ==
  UNION { { Returned(p, a) : p \in [1 .. n -> {1, -1, 0}], a \in [1 .. n -> {1, -1}] } :
          n \in 0 .. MaxPairs }

MetricsInit ==
  /\ data = <<>>
  /\ strategy \in StrategyNames
  /\ result \in PairLists \cup {NoneResult}
  /\ metrics = <<>>
  /\ spc = "ran"
  /\ fn = "none"
  /\ closes = <<>>
  /\ look_ahead = 0
  /\ seq_length = 0
  /\ i = 0
  /\ sequences = <<>>
  /\ labels = <<>>
  /\ anchors = <<>>
  /\ close_reads = {}
  /\ pc = "idle"
  /\ asset_idx = 0
  /\ results = <<>>
  /\ log = <<>>
  /\ evaluated = {}
  /\ summary = <<>>
  /\ saved = <<>>
  /\ verdict = "none"
  /\ mpc = "idle"
  /\ ifn = "none"
  /\ ohlcv = <<>>
  /\ features = <<>>
  /\ ind_i = 0
  /\ ipc = "idle"
  /\ train_X = <<>>
  /\ train_y = <<>>
  /\ apc = "idle"
  /\ price_data = <<>>
  /\ price_seq_length = 0
  /\ price_i = 0
  /\ xs = <<>>
  /\ ys = <<>>
  /\ price_pc = "idle"
  /\ epoch = 0
  /\ best_val_acc = 0
  /\ model_path = "unbound"
  /\ checkpoint = 0
  /\ val_history = <<>>
  /\ tpc = "idle"
  /\ history_prices = <<>>
  /\ is_fitted = FALSE
  /\ model_file = [content |-> "none", version |-> 0]
  /\ fetched = 0
  /\ export_failures = 0
  /\ step_outcome = "none"
  /\ loop_pc = "idle"

MetricsNext ==
  \/ CalculateMetrics

----------------------------------------------------------------------------
(* Backtest: main *)

ASSETS == <<"BTC", "ETH", "SOL", "LTC">>
SummaryOrder == <<"AI Model", "Heuristic", "Buy & Hold">>

\* what fetch_test_data returns when it does not fail: n candles, flat at
\* price 1 with the last close at 2, for n = SEQ_LENGTH + 1 (no prediction:
\* too few candles) up to SEQ_LENGTH + 1 + MaxBacktestPredictions; the array
\* with k predictions holds k - 1 ties followed by a rise
BacktestData ==
  { [k \in 0 .. (n - 1) |-> IF k = n - 1 THEN 2 ELSE 1] :
      n \in (SEQ_LENGTH + 1) .. (SEQ_LENGTH + 1 + MaxBacktestPredictions) }

\* the rows of df[df['strategy'] == name], in order
RECURSIVE RowsOf(_, _)
RowsOf(rows, name) ==
  IF rows = <<>> THEN <<>>
  ELSE IF rows[1].strategy = name THEN <<rows[1]>> \o RowsOf(Tail(rows), name)
  ELSE RowsOf(Tail(rows), name)

\* the accuracy of all the samples pooled: the num_predictions-weighted mean
PooledAccuracy(rows) ==
  Fin(SumSeq([k \in 1 .. Len(rows) |-> rows[k].accuracy * rows[k].num_predictions]),
      SumSeq([k \in 1 .. Len(rows) |-> rows[k].num_predictions]))

\* strategy_data['accuracy'].mean(): the sum of the column over the row count
MeanAccuracy(rows) ==
  Fin(SumSeq([k \in 1 .. Len(rows) |-> rows[k].accuracy]), Len(rows))

\* strategy_data['total_return'].mean()
MeanReturn(rows) ==
  Fin(SumSeq([k \in 1 .. Len(rows) |-> rows[k].total_return]), Len(rows))

\* one summary line per strategy that has rows, in the order of the loop
RECURSIVE SummaryLines(_, _)
SummaryLines(rows, names) ==
  IF names = <<>> THEN <<>>
  ELSE LET strategy_data == RowsOf(rows, names[1])
       IN  (IF Len(strategy_data) > 0
            THEN << [strategy |-> names[1],
                     avg_acc |-> MeanAccuracy(strategy_data),
                     avg_ret |-> MeanReturn(strategy_data)] >>
            ELSE <<>>)
           \o SummaryLines(rows, Tail(names))

\* the threshold check with a strict comparison: avg_ai_accuracy > 55
VerdictStrict(rows) ==
  LET ai_results == RowsOf(rows, "AI Model")
  IN  IF Len(ai_results) > 0
      THEN (IF FloatGreaterThan(MeanAccuracy(ai_results), Fin(55 * 100, 1))
            THEN "SUCCESS" ELSE "FAILURE")
      ELSE "none"

\* the threshold check: avg_ai_accuracy >= 55 (accuracies in hundredths)
Verdict(rows) ==
  LET ai_results == RowsOf(rows, "AI Model")
  IN  IF Len(ai_results) > 0
      THEN (IF ~FloatGreaterThan(Fin(55 * 100, 1), MeanAccuracy(ai_results))
            THEN "SUCCESS" ELSE "FAILURE")
      ELSE "none"

\* the lines ai_strategy prints on its early returns
AiLog(asset, model_exists, scaler_exists, session_loads) ==
  IF ~model_exists THEN << <<asset, "Model not found">> >>
  ELSE IF ~scaler_exists THEN << <<asset, "Scaler not found">> >>
  ELSE IF ~session_loads THEN << <<asset, "Failed to load ONNX model">> >>
  ELSE <<>>

\* the history entry of one strategy call
EvaluatedOf(asset, name, res) ==
  IF res.ok THEN {<<asset, name, Len(res.predictions)>>} ELSE {}

MainInit ==
  /\ asset_idx = 1
  /\ results = <<>>
  /\ log = <<>>
  /\ evaluated = {}
  /\ summary = <<>>
  /\ saved = <<>>
  /\ verdict = "none"
  /\ mpc = "loop"
  /\ data = <<>>
  /\ strategy = "none"
  /\ result = NoneResult
  /\ metrics = <<>>
  /\ spc = "idle"
  /\ fn = "none"
  /\ closes = <<>>
  /\ look_ahead = 0
  /\ seq_length = 0
  /\ i = 0
  /\ sequences = <<>>
  /\ labels = <<>>
  /\ anchors = <<>>
  /\ close_reads = {}
  /\ pc = "idle"
  /\ ifn = "none"
  /\ ohlcv = <<>>
  /\ features = <<>>
  /\ ind_i = 0
  /\ ipc = "idle"
  /\ train_X = <<>>
  /\ train_y = <<>>
  /\ apc = "idle"
  /\ price_data = <<>>
  /\ price_seq_length = 0
  /\ price_i = 0
  /\ xs = <<>>
  /\ ys = <<>>
  /\ price_pc = "idle"
  /\ epoch = 0
  /\ best_val_acc = 0
  /\ model_path = "unbound"
  /\ checkpoint = 0
  /\ val_history = <<>>
  /\ tpc = "idle"
  /\ history_prices = <<>>
  /\ is_fitted = FALSE
  /\ model_file = [content |-> "none", version |-> 0]
  /\ fetched = 0
  /\ export_failures = 0
  /\ step_outcome = "none"
  /\ loop_pc = "idle"

\* one pass of `for asset in ASSETS` whose fetch_test_data returns None: continue
MainFetchFailed ==
  /\ mpc = "loop"
  /\ asset_idx <= Len(ASSETS)
  /\ log' = Append(log, <<ASSETS[asset_idx], "Failed to fetch data">>)
  /\ asset_idx' = asset_idx + 1
  /\ UNCHANGED <<results, evaluated, summary, saved, verdict, mpc>>
  /\ UNCHANGED seqVars
  /\ UNCHANGED stratVars
  /\ UNCHANGED indVars
  /\ UNCHANGED alignVars
  /\ UNCHANGED priceVars
  /\ UNCHANGED lstmVars
  /\ UNCHANGED trainerVars

\* one pass of `for asset in ASSETS` with fetched candles: the three
\* strategies, each followed by calculate_metrics and the append of its row
MainProcessAsset ==
  /\ mpc = "loop"
  /\ asset_idx <= Len(ASSETS)
  /\ \E d \in BacktestData :
     \* the baselines depend on the candles only: their values are bound once
     \* per array; the rows are appended in the order of the calls
     \E heur \in {heuristic_strategy(d)} :
     \E heur_metrics \in {calculate_metrics(heur, "Heuristic", ASSETS[asset_idx])} :
     \E bh \in {buyhold_strategy(d)} :
     \E bh_metrics \in {calculate_metrics(bh, "Buy & Hold", ASSETS[asset_idx])} :
     \E model_exists \in BOOLEAN, scaler_exists \in BOOLEAN, session_loads \in BOOLEAN :
     \E outcomes \in IF model_exists /\ scaler_exists /\ session_loads
                     THEN [1 .. AiCount(d) -> {"above", "not_above", "raise"}]
                     ELSE {<<>>} :
     \E ai \in {ai_strategy(model_exists, scaler_exists, session_loads, d, outcomes)} :
     \E ai_metrics \in {calculate_metrics(ai, "AI Model", ASSETS[asset_idx])} :
       LET asset == ASSETS[asset_idx]
       IN  /\ results' = results \o ai_metrics \o heur_metrics \o bh_metrics
           /\ log' = log \o AiLog(asset, model_exists, scaler_exists, session_loads)
           /\ evaluated' = evaluated \cup EvaluatedOf(asset, "AI Model", ai)
                                     \cup EvaluatedOf(asset, "Heuristic", heur)
                                     \cup EvaluatedOf(asset, "Buy & Hold", bh)
  /\ asset_idx' = asset_idx + 1
  /\ UNCHANGED <<summary, saved, verdict, mpc>>
  /\ UNCHANGED seqVars
  /\ UNCHANGED stratVars
  /\ UNCHANGED indVars
  /\ UNCHANGED alignVars
  /\ UNCHANGED priceVars
  /\ UNCHANGED lstmVars
  /\ UNCHANGED trainerVars

\* after the loop: df = pd.DataFrame(results), the summary, the json dump and
\* the threshold check; with no row the frame has no 'strategy' column and
\* df['strategy'] raises KeyError
MainSummary ==
  /\ mpc = "loop"
  /\ asset_idx > Len(ASSETS)
  /\ IF results = <<>>
     THEN /\ mpc' = "KeyError"
          /\ UNCHANGED <<summary, saved, verdict>>
     ELSE /\ summary' = SummaryLines(results, SummaryOrder)
          /\ saved' = results
          /\ verdict' = Verdict(results)
          /\ mpc' = "done"
  /\ UNCHANGED <<asset_idx, results, log, evaluated>>
  /\ UNCHANGED seqVars
  /\ UNCHANGED stratVars
  /\ UNCHANGED indVars
  /\ UNCHANGED alignVars
  /\ UNCHANGED priceVars
  /\ UNCHANGED lstmVars
  /\ UNCHANGED trainerVars

MainNext ==
  \/ MainFetchFailed
  \/ MainProcessAsset
  \/ MainSummary

----------------------------------------------------------------------------
(* Backtest: the summary of main on the rows of a finished loop *)

\* the row calculate_metrics returns for VerdictTotal predictions of which
\* `correct` match
VerdictTotal == 20
MetricsRow(asset, name, correct) ==
  [asset |-> asset,
   strategy |-> name,
   accuracy |-> Accuracy(correct, VerdictTotal),
   total_return |-> 100 * (correct - (VerdictTotal - correct)),
   num_predictions |-> VerdictTotal]

\* the correct counts tried for the AI Model rows: accuracies 0, 50, 55, 60
\* and 100, so that a mean of exactly 55 arises from one row and from
\* unequal rows
VerdictCorrect == {0, 10, 11, 12, 20}

\* what one pass of the loop can have appended for an asset: nothing (fetch
\* failed or too few candles), the two baseline rows (artifact missing), or
\* the AI Model row followed by the two baseline rows
AssetRows(asset) ==
  {<<>>}
  \cup {<< MetricsRow(asset, "Heuristic", 10), MetricsRow(asset, "Buy & Hold", 10) >>}
  \cup { << MetricsRow(asset, "AI Model", c),
            MetricsRow(asset, "Heuristic", 10),
            MetricsRow(asset, "Buy & Hold", 10) >> : c \in VerdictCorrect }

RECURSIVE ResultLists(_)
ResultLists(k) ==
  IF k = 0 THEN {<<>>}
  ELSE { head \o rows : head \in ResultLists(k - 1), rows \in AssetRows(ASSETS[k]) }

\* main at the end of `for asset in ASSETS`
VerdictInit ==
  /\ asset_idx = Len(ASSETS) + 1
  /\ results \in ResultLists(Len(ASSETS))
  /\ log = <<>>
  /\ evaluated = {}
  /\ summary = <<>>
  /\ saved = <<>>
  /\ verdict = "none"
  /\ mpc = "loop"
  /\ data = <<>>
  /\ strategy = "none"
  /\ result = NoneResult
  /\ metrics = <<>>
  /\ spc = "idle"
  /\ fn = "none"
  /\ closes = <<>>
  /\ look_ahead = 0
  /\ seq_length = 0
  /\ i = 0
  /\ sequences = <<>>
  /\ labels = <<>>
  /\ anchors = <<>>
  /\ close_reads = {}
  /\ pc = "idle"
  /\ ifn = "none"
  /\ ohlcv = <<>>
  /\ features = <<>>
  /\ ind_i = 0
  /\ ipc = "idle"
  /\ train_X = <<>>
  /\ train_y = <<>>
  /\ apc = "idle"
  /\ price_data = <<>>
  /\ price_seq_length = 0
  /\ price_i = 0
  /\ xs = <<>>
  /\ ys = <<>>
  /\ price_pc = "idle"
  /\ epoch = 0
  /\ best_val_acc = 0
  /\ model_path = "unbound"
  /\ checkpoint = 0
  /\ val_history = <<>>
  /\ tpc = "idle"
  /\ history_prices = <<>>
  /\ is_fitted = FALSE
  /\ model_file = [content |-> "none", version |-> 0]
  /\ fetched = 0
  /\ export_failures = 0
  /\ step_outcome = "none"
  /\ loop_pc = "idle"

VerdictNext ==
  \/ MainSummary

----------------------------------------------------------------------------
(* Indicators: float arithmetic *)

Abs(x) == IF x < 0 THEN -x ELSE x

RECURSIVE GCD(_, _)
GCD(a, b) == IF b = 0 THEN a ELSE GCD(b, a % b)

\* the finite value n / d (d # 0) in lowest terms with a positive denominator
Rat(n, d) ==
  LET g == GCD(Abs(n), Abs(d))
  IN  IF d > 0 THEN Fin(n \div g, d \div g) ELSE Fin((-n) \div g, (-d) \div g)

IsFin(r) == r.kind = "fin"
IsInf(r) == r.kind \in {"+inf", "-inf"}
Sign(r) ==
  CASE r.kind = "+inf" -> 1
    [] r.kind = "-inf" -> -1
    [] r.kind = "fin" -> (IF r.num > 0 THEN 1 ELSE IF r.num < 0 THEN -1 ELSE 0)
    [] OTHER -> 0
InfOf(sign) == IF sign > 0 THEN PInf ELSE NInf
Neg(r) ==
  CASE r.kind = "fin" -> Fin(-r.num, r.den)
    [] r.kind = "+inf" -> NInf
    [] r.kind = "-inf" -> PInf
    [] OTHER -> r

\* a + b, a - b, a * b and a / b on float64 values (IEEE rules for the
\* specials: inf - inf, 0 * inf, 0 / 0 and inf / inf are nan; x / 0 is +-inf)
FloatAdd(a, b) ==
  IF a.kind = "nan" \/ b.kind = "nan" THEN NaN
  ELSE IF IsInf(a) /\ IsInf(b) THEN (IF a.kind = b.kind THEN a ELSE NaN)
  ELSE IF IsInf(a) THEN a
  ELSE IF IsInf(b) THEN b
  ELSE LET g == GCD(a.den, b.den)
       IN  Rat(a.num * (b.den \div g) + b.num * (a.den \div g), (a.den \div g) * b.den)

FloatSub(a, b) == FloatAdd(a, Neg(b))

FloatMul(a, b) ==
  IF a.kind = "nan" \/ b.kind = "nan" THEN NaN
  ELSE IF IsInf(a) \/ IsInf(b)
       THEN (IF Sign(a) * Sign(b) = 0 THEN NaN ELSE InfOf(Sign(a) * Sign(b)))
  ELSE LET g1 == GCD(Abs(a.num), b.den)
           g2 == GCD(Abs(b.num), a.den)
       IN  Rat((a.num \div g1) * (b.num \div g2), (a.den \div g2) * (b.den \div g1))

FloatQuot(a, b) ==
  IF a.kind = "nan" \/ b.kind = "nan" THEN NaN
  ELSE IF IsInf(a) THEN (IF IsInf(b) THEN NaN
                         ELSE InfOf(Sign(a) * (IF Sign(b) < 0 THEN -1 ELSE 1)))
  ELSE IF IsInf(b) THEN Fin(0, 1)
  ELSE IF b.num = 0 THEN (IF a.num = 0 THEN NaN ELSE InfOf(Sign(a)))
  ELSE FloatMul(a, Rat(b.den, b.num))

\* x != 0: true of every value but zero, nan included
NotZero(r) == ~(r.kind = "fin" /\ r.num = 0)

\* a <= b; false when either is nan
FloatLeq(a, b) ==
  IF a.kind = "nan" \/ b.kind = "nan" THEN FALSE
  ELSE IF a.kind = "-inf" \/ b.kind = "+inf" THEN TRUE
  ELSE IF a.kind = "+inf" \/ b.kind = "-inf" THEN FALSE
  ELSE a.num * b.den <= b.num * a.den

----------------------------------------------------------------------------
(* Indicators: numpy helpers *)

\* a[lo:hi] as the list of its values
SliceOf(a, lo, hi) ==
  LET idx == SliceIndices(lo, hi, Len0(a))
  IN  [k \in 1 .. Len(idx) |-> a[idx[k]]]

\* the sum of q[lo .. hi], by halves (the windows reach 200 values)
RECURSIVE SumRange(_, _, _)
SumRange(q, lo, hi) ==
  IF lo > hi THEN 0
  ELSE IF lo = hi THEN q[lo]
  ELSE LET mid == (lo + hi) \div 2
       IN  SumRange(q, lo, mid) + SumRange(q, mid + 1, hi)

Total(q) == SumRange(q, 1, Len(q))

\* np.mean of a list of whole numbers: nan for an empty list
Mean(q) == IF Len(q) = 0 THEN NaN ELSE Rat(Total(q), Len(q))

\* the square of np.std(q): the mean squared deviation from the mean
Variance(q) ==
  IF Len(q) = 0 THEN NaN
  ELSE Rat(Len(q) * Total([k \in 1 .. Len(q) |-> q[k] * q[k]]) - Total(q) * Total(q),
           Len(q) * Len(q))

RECURSIVE MaxSeq(_)
MaxSeq(q) == IF Len(q) = 1 THEN q[1] ELSE Max(q[1], MaxSeq(Tail(q)))

RECURSIVE MinSeq(_)
MinSeq(q) == IF Len(q) = 1 THEN q[1] ELSE Min(q[1], MinSeq(Tail(q)))

\* np.diff(q)
Diff(q) == [k \in 1 .. (Len(q) - 1) |-> q[k + 1] - q[k]]

\* A standard deviation is the square root of a rational.  The values built
\* from it are kept exact in symbolic form:
\*   kind "sqrt" / "-sqrt":            +sqrt(num/den) / -sqrt(num/den)
\*   kind "half+sqrt" / "half-sqrt":   1/2 + sqrt(num/den) / 1/2 - sqrt(num/den)
\* with num/den > 0 in lowest terms; a zero root is the plain finite value.
SurdValue(sign, r) ==
  IF r.num = 0 \/ sign = 0 THEN Fin(0, 1)
  ELSE [kind |-> IF sign > 0 THEN "sqrt" ELSE "-sqrt", num |-> r.num, den |-> r.den]

HalfPlusSurd(sign, r) ==
  IF r.num = 0 \/ sign = 0 THEN Fin(1, 2)
  ELSE [kind |-> IF sign > 0 THEN "half+sqrt" ELSE "half-sqrt",
        num |-> r.num, den |-> r.den]

\* upper - lower with upper = sma + 2 * std and lower = sma - 2 * std: 4 * std,
\* held by its square 16 * variance
BandSquared(variance) == FloatMul(Fin(16, 1), variance)

\* (upper - lower) / x for a finite x
BandOver(variance, x) ==
  IF x.num = 0 THEN (IF variance.num = 0 THEN NaN ELSE PInf)
  ELSE SurdValue(Sign(x), FloatQuot(BandSquared(variance), FloatMul(x, x)))

\* (close - lower) / (upper - lower) = 1/2 + (close - sma) / (4 * std)
BandPosition(close, sma, variance) ==
  LET d == FloatSub(Fin(close, 1), sma)
  IN  IF variance.num = 0 THEN (IF d.num = 0 THEN NaN ELSE InfOf(Sign(d)))
      ELSE HalfPlusSurd(Sign(d), FloatQuot(FloatMul(d, d), BandSquared(variance)))

\* neither +-inf nor nan
Finite(r) == r.kind \notin {"+inf", "-inf", "nan"}

\* the guard dropped: the ratio is always computed
UnguardedRatio(x, y, guard, neutral) == FloatQuot(x, y)

\* `x / y if guard != 0 else neutral`
GuardedRatio(x, y, guard, neutral) == IF NotZero(guard) THEN FloatQuot(x, y) ELSE neutral

\* max(highs[j] - lows[j], abs(highs[j] - closes[j-1]), abs(lows[j] - closes[j-1]))
\* (cl is the array `closes`)
TrueRange(highs, lows, cl, j) ==
  Max(At(highs, j) - At(lows, j),
      Max(Abs(At(highs, j) - At(cl, j - 1)), Abs(At(lows, j) - At(cl, j - 1))))

\* the columns of the candle array
Column(a, field) == [k \in DOMAIN a |-> a[k][field]]

----------------------------------------------------------------------------
(* Indicators: calculate_technical_indicators (train_lstm_signal.py) *)

\* the loop of both functions starts at 200; in the operators below t is the
\* loop index `i` and cl the array `closes`
indicator_start == 200

\* Feature 0: RSI over the deltas closes[j] - closes[j-1], j in range(i-14, i)
TechnicalRSI(cl, t) ==
  LET js == RangeList(t - 14, t)
      gains == Rat(Total([k \in 1 .. Len(js) |->
                             Max(At(cl, js[k]) - At(cl, js[k] - 1), 0)]), 14)
      losses == Rat(Total([k \in 1 .. Len(js) |->
                              Max(At(cl, js[k] - 1) - At(cl, js[k]), 0)]), 14)
  IN  IF losses.num = 0 THEN Fin(100, 1)
      ELSE LET rs == FloatQuot(gains, losses)
           IN  FloatSub(Fin(100, 1), FloatQuot(Fin(100, 1), FloatAdd(Fin(1, 1), rs)))

\* Feature 1: np.mean(closes[i-12:i]) - np.mean(closes[i-26:i])
TechnicalMACD(cl, t) ==
  FloatSub(Mean(SliceOf(cl, t - 12, t)), Mean(SliceOf(cl, t - 26, t)))

\* Feature 2: (upper - lower) / sma if sma != 0 else 0
TechnicalBBWidth(cl, t) ==
  LET sma == Mean(SliceOf(cl, t - 20, t))
      variance == Variance(SliceOf(cl, t - 20, t))
  IN  IF NotZero(sma) THEN BandOver(variance, sma) ELSE Fin(0, 1)

\* Feature 3: (closes[i] - lower) / (upper - lower) if (upper - lower) != 0 else 0.5
TechnicalBBPosition(cl, t) ==
  LET sma == Mean(SliceOf(cl, t - 20, t))
      variance == Variance(SliceOf(cl, t - 20, t))
  IN  IF NotZero(variance) THEN BandPosition(At(cl, t), sma, variance) ELSE Fin(1, 2)

\* Features 4 and 5: (sma20 - sma50) / sma50 and (sma50 - sma200) / sma200
TechnicalSMADivergence(cl, t, short, long) ==
  LET sma_short == Mean(SliceOf(cl, t - short, t))
      sma_long == Mean(SliceOf(cl, t - long, t))
  IN  GuardedRatio(FloatSub(sma_short, sma_long), sma_long, sma_long, Fin(0, 1))

\* Feature 6: (closes[i] - closes[i-5]) / closes[i-5] if closes[i-5] != 0 else 0
TechnicalMomentum(cl, t) ==
  GuardedRatio(Fin(At(cl, t) - At(cl, t - 5), 1), Fin(At(cl, t - 5), 1),
               Fin(At(cl, t - 5), 1), Fin(0, 1))

\* Feature 7: volumes[i] / vol_avg if vol_avg != 0 else 1.0
TechnicalVolumeRatio(volumes, t) ==
  LET vol_avg == Mean(SliceOf(volumes, t - 20, t))
  IN  GuardedRatio(Fin(At(volumes, t), 1), vol_avg, vol_avg, Fin(1, 1))

\* Feature 8: atr / closes[i] if closes[i] != 0 else 0, atr the mean true
\* range of j in range(i-14, i)
TechnicalATR(highs, lows, cl, t) ==
  LET js == RangeList(t - 14, t)
      atr == Mean([k \in 1 .. Len(js) |-> TrueRange(highs, lows, cl, js[k])])
  IN  GuardedRatio(atr, Fin(At(cl, t), 1), Fin(At(cl, t), 1), Fin(0, 1))

\* the stochastic oscillator without its guard on a flat range
TechnicalStochasticUnguarded(highs, lows, cl, t) ==
  LET lowest == MinSeq(SliceOf(lows, t - 14, t))
      highest == MaxSeq(SliceOf(highs, t - 14, t))
  IN  FloatMul(FloatQuot(Fin(At(cl, t) - lowest, 1), Fin(highest - lowest, 1)),
               Fin(100, 1))

\* Feature 9: ((closes[i] - lowest) / (highest - lowest)) * 100 if
\* (highest - lowest) != 0 else 50, over lows[i-14:i] and highs[i-14:i]
TechnicalStochastic(highs, lows, cl, t) ==
  LET lowest == MinSeq(SliceOf(lows, t - 14, t))
      highest == MaxSeq(SliceOf(highs, t - 14, t))
  IN  IF highest - lowest # 0
      THEN FloatMul(FloatQuot(Fin(At(cl, t) - lowest, 1), Fin(highest - lowest, 1)),
                    Fin(100, 1))
      ELSE Fin(50, 1)

\* np.zeros(11)
ZeroRow == [k \in 1 .. 11 |-> Fin(0, 1)]

\* the row features[i, :] after the loop body ran for i: a feature whose
\* `if i >= ...` is false keeps its 0
TechnicalRow(highs, lows, cl, volumes, t) ==
  << IF t >= 14 THEN TechnicalRSI(cl, t) ELSE Fin(0, 1),
     IF t >= 26 THEN TechnicalMACD(cl, t) ELSE Fin(0, 1),
     IF t >= 20 THEN TechnicalBBWidth(cl, t) ELSE Fin(0, 1),
     IF t >= 20 THEN TechnicalBBPosition(cl, t) ELSE Fin(0, 1),
     TechnicalSMADivergence(cl, t, 20, 50),
     TechnicalSMADivergence(cl, t, 50, 200),
     IF t >= 5 THEN TechnicalMomentum(cl, t) ELSE Fin(0, 1),
     IF t >= 20 THEN TechnicalVolumeRatio(volumes, t) ELSE Fin(0, 1),
     IF t >= 14 THEN TechnicalATR(highs, lows, cl, t) ELSE Fin(0, 1),
     IF t >= 14 THEN TechnicalStochastic(highs, lows, cl, t) ELSE Fin(0, 1),
     Fin(0, 1) >>

----------------------------------------------------------------------------
(* Indicators: calculate_features (train_multi_timeframe.py) *)

\* rsi: the mean gain and mean loss of np.diff(closes[i-14:i+1]);
\* rs = avg_gain / avg_loss if avg_loss != 0 else 0; 100 - (100 / (1 + rs))
FeaturesRSI(cl, t) ==
  LET deltas == Diff(SliceOf(cl, t - 14, t + 1))
      gains == [k \in 1 .. Len(deltas) |-> Max(deltas[k], 0)]
      losses == [k \in 1 .. Len(deltas) |-> Max(-deltas[k], 0)]
      avg_gain == IF Len(gains) > 0 THEN Mean(gains) ELSE Fin(0, 1)
      avg_loss == IF Len(losses) > 0 THEN Mean(losses) ELSE Fin(0, 1)
      rs == GuardedRatio(avg_gain, avg_loss, avg_loss, Fin(0, 1))
  IN  FloatSub(Fin(100, 1), FloatQuot(Fin(100, 1), FloatAdd(Fin(1, 1), rs)))

\* macd = (ema12 - ema26) / closes[i] if closes[i] != 0 else 0
FeaturesMACD(cl, t) ==
  LET ema12 == Mean(SliceOf(cl, t - 11, t + 1))
      ema26 == Mean(SliceOf(cl, t - 25, t + 1))
  IN  GuardedRatio(FloatSub(ema12, ema26), Fin(At(cl, t), 1), Fin(At(cl, t), 1),
                   Fin(0, 1))

\* bb_width = (bb_upper - bb_lower) / closes[i] if closes[i] != 0 else 0
FeaturesBBWidth(cl, t) ==
  LET variance == Variance(SliceOf(cl, t - 19, t + 1))
  IN  IF At(cl, t) # 0 THEN BandOver(variance, Fin(At(cl, t), 1)) ELSE Fin(0, 1)

\* bb_position = (closes[i] - bb_lower) / (bb_upper - bb_lower)
\*               if (bb_upper - bb_lower) != 0 else 0.5
FeaturesBBPosition(cl, t) ==
  LET sma_20 == Mean(SliceOf(cl, t - 19, t + 1))
      variance == Variance(SliceOf(cl, t - 19, t + 1))
  IN  IF NotZero(variance) THEN BandPosition(At(cl, t), sma_20, variance) ELSE Fin(1, 2)

\* sma_20_50 and sma_50_200: 1.0 if the shorter mean is above the longer else 0.0
FeaturesCrossover(cl, t, short, long) ==
  IF FloatGreaterThan(Mean(SliceOf(cl, t - (short - 1), t + 1)),
                      Mean(SliceOf(cl, t - (long - 1), t + 1)))
  THEN Fin(1, 1) ELSE Fin(0, 1)

\* momentum = (closes[i] - closes[i-10]) / closes[i-10] if closes[i-10] != 0 else 0
FeaturesMomentum(cl, t) ==
  GuardedRatio(Fin(At(cl, t) - At(cl, t - 10), 1), Fin(At(cl, t - 10), 1),
               Fin(At(cl, t - 10), 1), Fin(0, 1))

\* vol_ratio = volumes[i] / np.mean(volumes[i-19:i+1]) if that mean != 0 else 1.0
FeaturesVolumeRatio(volumes, t) ==
  LET vol_avg == Mean(SliceOf(volumes, t - 19, t + 1))
  IN  GuardedRatio(Fin(At(volumes, t), 1), vol_avg, vol_avg, Fin(1, 1))

\* atr = tr / closes[i] if closes[i] != 0 else 0
FeaturesATR(highs, lows, cl, t) ==
  GuardedRatio(Fin(TrueRange(highs, lows, cl, t), 1), Fin(At(cl, t), 1),
               Fin(At(cl, t), 1), Fin(0, 1))

\* the window that reaches one candle past i
FeaturesStochasticWindowAhead(t) == [lo |-> t - 13, hi |-> t + 2]

\* the slice bounds of highs[i-13:i+1] and lows[i-13:i+1]
FeaturesStochasticWindow(t) == [lo |-> t - 13, hi |-> t + 1]

\* stochastic = ((closes[i] - low_14) / (high_14 - low_14)) * 100
\*              if (high_14 - low_14) != 0 else 50
FeaturesStochastic(highs, lows, cl, t) ==
  LET w == FeaturesStochasticWindow(t)
      high_14 == MaxSeq(SliceOf(highs, w.lo, w.hi))
      low_14 == MinSeq(SliceOf(lows, w.lo, w.hi))
  IN  IF high_14 - low_14 # 0
      THEN FloatMul(FloatQuot(Fin(At(cl, t) - low_14, 1), Fin(high_14 - low_14, 1)),
                    Fin(100, 1))
      ELSE Fin(50, 1)

\* obv_change = (volumes[i] - volumes[i-5]) / volumes[i-5] if volumes[i-5] != 0 else 0
FeaturesOBVChange(volumes, t) ==
  GuardedRatio(Fin(At(volumes, t) - At(volumes, t - 5), 1), Fin(At(volumes, t - 5), 1),
               Fin(At(volumes, t - 5), 1), Fin(0, 1))

\* the row appended for i; the stochastic is stored as stochastic / 100
FeaturesRow(highs, lows, cl, volumes, t) ==
  << FeaturesRSI(cl, t),
     FeaturesMACD(cl, t),
     FeaturesBBWidth(cl, t),
     FeaturesBBPosition(cl, t),
     FeaturesCrossover(cl, t, 20, 50),
     FeaturesCrossover(cl, t, 50, 200),
     FeaturesMomentum(cl, t),
     FeaturesVolumeRatio(volumes, t),
     FeaturesATR(highs, lows, cl, t),
     FloatQuot(FeaturesStochastic(highs, lows, cl, t), Fin(100, 1)),
     FeaturesOBVChange(volumes, t) >>

----------------------------------------------------------------------------
(* Indicators: the two functions as state machines *)

Candle(h, l, c, v) == [high |-> h, low |-> l, close |-> c, volume |-> v]

\* the candles tried: an all-zero candle, a flat candle (high = low = close),
\* a candle with a range around the same close, a candle closing above the
\* highs of the others, and a candle closing at its low with no volume
ZeroCandle == Candle(0, 0, 0, 0)
FlatCandle == Candle(2, 2, 2, 1)
RangeCandle == Candle(3, 1, 2, 1)
UpCandle == Candle(4, 2, 4, 2)
DownCandle == Candle(2, 1, 1, 0)

PrefixCandles == {ZeroCandle, FlatCandle, RangeCandle}
TailCandles == {ZeroCandle, FlatCandle, UpCandle, DownCandle}

\* lengths of the series too short for any row
ShortLengths == {0, 1, 26, 199, 200}

\* the candle arrays tried: a constant prefix, of a short length or of the
\* 200 warm-up candles followed by up to max_tail free candles
CandleArrays(max_tail, tail_candles) ==
  { [k \in 0 .. (n - 1) |-> p] : n \in ShortLengths, p \in PrefixCandles }
  \cup
  UNION { { [k \in 0 .. (indicator_start + n - 1) |->
               IF k < indicator_start THEN p ELSE tail[k - indicator_start + 1]] :
            tail \in [1 .. n -> tail_candles], p \in PrefixCandles } :
          n \in 1 .. max_tail }

IndicatorFunctions == {"calculate_technical_indicators", "calculate_features"}

\* a call of one of the two functions on a candle array
IndInit ==
  /\ ifn \in IndicatorFunctions
  /\ ohlcv \in CandleArrays(MaxIndTail, TailCandles)
  /\ features = <<>>
  /\ ind_i = 0
  /\ ipc = "start"
  /\ fn = "none"
  /\ closes = <<>>
  /\ look_ahead = 0
  /\ seq_length = 0
  /\ i = 0
  /\ sequences = <<>>
  /\ labels = <<>>
  /\ anchors = <<>>
  /\ close_reads = {}
  /\ pc = "idle"
  /\ data = <<>>
  /\ strategy = "none"
  /\ result = NoneResult
  /\ metrics = <<>>
  /\ spc = "idle"
  /\ asset_idx = 0
  /\ results = <<>>
  /\ log = <<>>
  /\ evaluated = {}
  /\ summary = <<>>
  /\ saved = <<>>
  /\ verdict = "none"
  /\ mpc = "idle"
  /\ train_X = <<>>
  /\ train_y = <<>>
  /\ apc = "idle"
  /\ price_data = <<>>
  /\ price_seq_length = 0
  /\ price_i = 0
  /\ xs = <<>>
  /\ ys = <<>>
  /\ price_pc = "idle"
  /\ epoch = 0
  /\ best_val_acc = 0
  /\ model_path = "unbound"
  /\ checkpoint = 0
  /\ val_history = <<>>
  /\ tpc = "idle"
  /\ history_prices = <<>>
  /\ is_fitted = FALSE
  /\ model_file = [content |-> "none", version |-> 0]
  /\ fetched = 0
  /\ export_failures = 0
  /\ step_outcome = "none"
  /\ loop_pc = "idle"

\* features = np.zeros((n, 11))
TechnicalAlloc(n) == [k \in 0 .. (n - 1) |-> ZeroRow]

\* the loop started one candle late
FeaturesRangeLate(n) == [start |-> indicator_start + 1, stop |-> n]

\* range(200, len(closes)) of calculate_features
FeaturesRange(n) == [start |-> indicator_start, stop |-> n]

\* range(200, n) of calculate_technical_indicators
TechnicalRange(n) == [start |-> indicator_start, stop |-> n]

\* features.append(row)
Append0(a, row) == [k \in 0 .. Len0(a) |-> IF k < Len0(a) THEN a[k] ELSE row]

\* calculate_technical_indicators, lines 108-109: n = len(closes) and the
\* zero matrix
TechnicalEnter ==
  /\ ifn = "calculate_technical_indicators"
  /\ ipc = "start"
  /\ features' = TechnicalAlloc(Len0(ohlcv))
  /\ ind_i' = TechnicalRange(Len0(ohlcv)).start
  /\ ipc' = "loop"
  /\ UNCHANGED <<ifn, ohlcv>>
  /\ UNCHANGED seqVars
  /\ UNCHANGED stratVars
  /\ UNCHANGED mainVars
  /\ UNCHANGED alignVars
  /\ UNCHANGED priceVars
  /\ UNCHANGED lstmVars
  /\ UNCHANGED trainerVars

\* one iteration of `for i in range(200, n)`: the row features[i, :] is filled
TechnicalStep ==
  /\ ifn = "calculate_technical_indicators"
  /\ ipc = "loop"
  /\ ind_i < TechnicalRange(Len0(ohlcv)).stop
  /\ features' = [features EXCEPT ![ind_i] =
                    TechnicalRow(Column(ohlcv, "high"), Column(ohlcv, "low"),
                                 Column(ohlcv, "close"), Column(ohlcv, "volume"), ind_i)]
  /\ ind_i' = ind_i + 1
  /\ UNCHANGED <<ifn, ohlcv, ipc>>
  /\ UNCHANGED seqVars
  /\ UNCHANGED stratVars
  /\ UNCHANGED mainVars
  /\ UNCHANGED alignVars
  /\ UNCHANGED priceVars
  /\ UNCHANGED lstmVars
  /\ UNCHANGED trainerVars

\* return features
TechnicalReturn ==
  /\ ifn = "calculate_technical_indicators"
  /\ ipc = "loop"
  /\ ~(ind_i < TechnicalRange(Len0(ohlcv)).stop)
  /\ ipc' = "returned"
  /\ UNCHANGED <<ifn, ohlcv, features, ind_i>>
  /\ UNCHANGED seqVars
  /\ UNCHANGED stratVars
  /\ UNCHANGED mainVars
  /\ UNCHANGED alignVars
  /\ UNCHANGED priceVars
  /\ UNCHANGED lstmVars
  /\ UNCHANGED trainerVars

\* calculate_features, lines 55-60: the columns ohlcv[:, 3] ... and the empty
\* list; np.array of no candle is one-dimensional and ohlcv[:, 3] raises
\* IndexError
FeaturesEnter ==
  /\ ifn = "calculate_features"
  /\ ipc = "start"
  /\ IF Len0(ohlcv) = 0
     THEN /\ ipc' = "IndexError"
          /\ UNCHANGED <<features, ind_i>>
     ELSE /\ features' = <<>>
          /\ ind_i' = FeaturesRange(Len0(ohlcv)).start
          /\ ipc' = "loop"
  /\ UNCHANGED <<ifn, ohlcv>>
  /\ UNCHANGED seqVars
  /\ UNCHANGED stratVars
  /\ UNCHANGED mainVars
  /\ UNCHANGED alignVars
  /\ UNCHANGED priceVars
  /\ UNCHANGED lstmVars
  /\ UNCHANGED trainerVars

\* one iteration of `for i in range(200, len(closes))`: a row is appended
FeaturesStep ==
  /\ ifn = "calculate_features"
  /\ ipc = "loop"
  /\ ind_i < FeaturesRange(Len0(ohlcv)).stop
  /\ features' = Append0(features,
                    FeaturesRow(Column(ohlcv, "high"), Column(ohlcv, "low"),
                                Column(ohlcv, "close"), Column(ohlcv, "volume"), ind_i))
  /\ ind_i' = ind_i + 1
  /\ UNCHANGED <<ifn, ohlcv, ipc>>
  /\ UNCHANGED seqVars
  /\ UNCHANGED stratVars
  /\ UNCHANGED mainVars
  /\ UNCHANGED alignVars
  /\ UNCHANGED priceVars
  /\ UNCHANGED lstmVars
  /\ UNCHANGED trainerVars

\* return np.array(features)
FeaturesReturn ==
  /\ ifn = "calculate_features"
  /\ ipc = "loop"
  /\ ~(ind_i < FeaturesRange(Len0(ohlcv)).stop)
  /\ ipc' = "returned"
  /\ UNCHANGED <<ifn, ohlcv, features, ind_i>>
  /\ UNCHANGED seqVars
  /\ UNCHANGED stratVars
  /\ UNCHANGED mainVars
  /\ UNCHANGED alignVars
  /\ UNCHANGED priceVars
  /\ UNCHANGED lstmVars
  /\ UNCHANGED trainerVars

IndNext ==
  \/ TechnicalEnter
  \/ TechnicalStep
  \/ TechnicalReturn
  \/ FeaturesEnter
  \/ FeaturesStep
  \/ FeaturesReturn

----------------------------------------------------------------------------
(* The data preparation of a training run: the indicator function, then the
   label function on the closes of the same series (train_lstm_model,
   train_model) *)

\* the candles that vary after the warm-up prefix in the series tried
PipelineCandles == {FlatCandle, UpCandle, DownCandle}

\* the candles fetched and the configuration chosen; seq_length and
\* look_ahead are the arguments the label function will be called with
PipelineInit ==
  /\ ifn \in IndicatorFunctions
  /\ ohlcv \in CandleArrays(MaxIndTail, PipelineCandles)
  /\ features = <<>>
  /\ ind_i = 0
  /\ ipc = "start"
  /\ fn = "none"
  /\ closes = <<>>
  /\ look_ahead \in 1 .. MaxLookAhead
  /\ seq_length \in IF ifn = "calculate_technical_indicators"
                    THEN 1 .. MaxSeqLength ELSE {0}
  /\ i = 0
  /\ sequences = <<>>
  /\ labels = <<>>
  /\ anchors = <<>>
  /\ close_reads = {}
  /\ pc = "idle"
  /\ data = <<>>
  /\ strategy = "none"
  /\ result = NoneResult
  /\ metrics = <<>>
  /\ spc = "idle"
  /\ asset_idx = 0
  /\ results = <<>>
  /\ log = <<>>
  /\ evaluated = {}
  /\ summary = <<>>
  /\ saved = <<>>
  /\ verdict = "none"
  /\ mpc = "idle"
  /\ train_X = <<>>
  /\ train_y = <<>>
  /\ apc = "idle"
  /\ price_data = <<>>
  /\ price_seq_length = 0
  /\ price_i = 0
  /\ xs = <<>>
  /\ ys = <<>>
  /\ price_pc = "idle"
  /\ epoch = 0
  /\ best_val_acc = 0
  /\ model_path = "unbound"
  /\ checkpoint = 0
  /\ val_history = <<>>
  /\ tpc = "idle"
  /\ history_prices = <<>>
  /\ is_fitted = FALSE
  /\ model_file = [content |-> "none", version |-> 0]
  /\ fetched = 0
  /\ export_failures = 0
  /\ step_outcome = "none"
  /\ loop_pc = "idle"

\* train_lstm_model: sequences, labels = create_sequences(features, closes)
TrainCreateSequences ==
  /\ ifn = "calculate_technical_indicators"
  /\ ipc = "returned"
  /\ pc = "idle"
  /\ fn' = "create_sequences"
  /\ closes' = Column(ohlcv, "close")
  /\ i' = SequencesRange(Len0(ohlcv), seq_length, look_ahead).start
  /\ pc' = "loop"
  /\ UNCHANGED <<seq_length, look_ahead, sequences, labels, anchors, close_reads>>
  /\ UNCHANGED indVars
  /\ UNCHANGED stratVars
  /\ UNCHANGED mainVars
  /\ UNCHANGED alignVars
  /\ UNCHANGED priceVars
  /\ UNCHANGED lstmVars
  /\ UNCHANGED trainerVars

\* train_model: labels = create_labels(ohlcv[:, 3], lookahead)
TrainCreateLabels ==
  /\ ifn = "calculate_features"
  /\ ipc = "returned"
  /\ pc = "idle"
  /\ fn' = "create_labels"
  /\ closes' = Column(ohlcv, "close")
  /\ i' = LabelsRange(Len0(ohlcv), look_ahead).start
  /\ pc' = "loop"
  /\ UNCHANGED <<seq_length, look_ahead, sequences, labels, anchors, close_reads>>
  /\ UNCHANGED indVars
  /\ UNCHANGED stratVars
  /\ UNCHANGED mainVars
  /\ UNCHANGED alignVars
  /\ UNCHANGED priceVars
  /\ UNCHANGED lstmVars
  /\ UNCHANGED trainerVars

\* the rows cut from the end, features[-min_len:]
AlignedFromEnd(a, min_len) == [k \in 0 .. (min_len - 1) |-> a[Len0(a) - min_len + k]]

\* a[:min_len]
Aligned(a, min_len) == [k \in 0 .. (min_len - 1) |-> a[k]]

\* np.array(labels): the list as a 0-based array
AsArray(q) == [k \in 0 .. (Len(q) - 1) |-> q[k + 1]]

\* train_model: min_len = min(len(features), len(labels)),
\* X = features[:min_len], y = labels[:min_len]
TrainAlign ==
  /\ ifn = "calculate_features"
  /\ ipc = "returned"
  /\ fn = "create_labels"
  /\ pc = "returned"
  /\ apc = "idle"
  /\ LET min_len == Min(Len0(features), Len(labels))
     IN  /\ train_X' = Aligned(features, min_len)
         /\ train_y' = Aligned(AsArray(labels), min_len)
  /\ apc' = "aligned"
  /\ UNCHANGED seqVars
  /\ UNCHANGED indVars
  /\ UNCHANGED stratVars
  /\ UNCHANGED mainVars
  /\ UNCHANGED priceVars
  /\ UNCHANGED lstmVars
  /\ UNCHANGED trainerVars

PipelineNext ==
  \/ TechnicalEnter
  \/ TechnicalStep
  \/ TechnicalReturn
  \/ FeaturesEnter
  \/ FeaturesStep
  \/ FeaturesReturn
  \/ TrainCreateSequences
  \/ TrainCreateLabels
  \/ CreateSequencesStep
  \/ CreateSequencesReturn
  \/ CreateLabelsStep
  \/ CreateLabelsReturn
  \/ TrainAlign

----------------------------------------------------------------------------
(* train_model over the timeframe map *)

\* TIMEFRAMES: the lookahead in 5-minute candles of each timeframe
TIMEFRAMES ==
  [tf \in {"5m", "30m", "1h", "3h", "6h", "24h"} |->
     CASE tf = "5m" -> 1
       [] tf = "30m" -> 6
       [] tf = "1h" -> 12
       [] tf = "3h" -> 36
       [] tf = "6h" -> 72
       [] tf = "24h" -> 288]

\* the candles of the series tried, repeated in this order from an offset:
\* closes 2, 4, 1, 4, 2, so that the rows and the labels change from one
\* index to the next for every lookahead of the map
AlignPattern == <<FlatCandle, UpCandle, DownCandle, UpCandle, RangeCandle>>
AlignOffsets == {0, 1}
AlignSeries(n, offset) ==
  [k \in 0 .. (n - 1) |-> AlignPattern[((k + offset) % Len(AlignPattern)) + 1]]

\* the series lengths tried for the lookahead h: no candle after the
\* warm-up, one candle too few for a label, and 0 .. MaxAlignTail samples
AlignLengths(h) ==
  {indicator_start} \cup { indicator_start + h + d : d \in -1 .. MaxAlignTail }

\* train_model(asset, timeframe) with the candles fetched
AlignInit ==
  /\ ifn = "calculate_features"
  /\ \E timeframe \in DOMAIN TIMEFRAMES :
       /\ look_ahead = TIMEFRAMES[timeframe]
       /\ \E n \in AlignLengths(look_ahead), offset \in AlignOffsets :
            ohlcv = AlignSeries(n, offset)
  /\ features = <<>>
  /\ ind_i = 0
  /\ ipc = "start"
  /\ fn = "none"
  /\ closes = <<>>
  /\ seq_length = 0
  /\ i = 0
  /\ sequences = <<>>
  /\ labels = <<>>
  /\ anchors = <<>>
  /\ close_reads = {}
  /\ pc = "idle"
  /\ data = <<>>
  /\ strategy = "none"
  /\ result = NoneResult
  /\ metrics = <<>>
  /\ spc = "idle"
  /\ asset_idx = 0
  /\ results = <<>>
  /\ log = <<>>
  /\ evaluated = {}
  /\ summary = <<>>
  /\ saved = <<>>
  /\ verdict = "none"
  /\ mpc = "idle"
  /\ train_X = <<>>
  /\ train_y = <<>>
  /\ apc = "idle"
  /\ price_data = <<>>
  /\ price_seq_length = 0
  /\ price_i = 0
  /\ xs = <<>>
  /\ ys = <<>>
  /\ price_pc = "idle"
  /\ epoch = 0
  /\ best_val_acc = 0
  /\ model_path = "unbound"
  /\ checkpoint = 0
  /\ val_history = <<>>
  /\ tpc = "idle"
  /\ history_prices = <<>>
  /\ is_fitted = FALSE
  /\ model_file = [content |-> "none", version |-> 0]
  /\ fetched = 0
  /\ export_failures = 0
  /\ step_outcome = "none"
  /\ loop_pc = "idle"

AlignNext ==
  \/ FeaturesEnter
  \/ FeaturesStep
  \/ FeaturesReturn
  \/ TrainCreateLabels
  \/ CreateLabelsStep
  \/ CreateLabelsReturn
  \/ TrainAlign

----------------------------------------------------------------------------
(* The price trainers: create_sequences(data, seq_length) of train_lstm.py, *)
(* train_sol_agent.py, train_ltc_agent.py and train_transformer.py          *)

\* SEQ_LENGTH of train_lstm.py, train_sol_agent.py and train_ltc_agent.py,
\* and of train_transformer.py
LSTM_SEQ_LENGTH == 30
TRANSFORMER_SEQ_LENGTH == 60
PriceSeqLengths == {1, 2, LSTM_SEQ_LENGTH, TRANSFORMER_SEQ_LENGTH}

\* the close arrays tried for the sequence length s: every length up to s
\* (no pair) and up to MaxPriceTail candles more, those with free closes
PriceArrays(s) ==
  { [k \in 0 .. (n - 1) |-> 1 + (k % 2)] : n \in 0 .. s }
  \cup
  UNION { { [k \in 0 .. (s + t - 1) |->
               IF k < s THEN 1 + (k % 2) ELSE tail[k - s + 1]] :
            tail \in [1 .. t -> {1, 2, 3}] } : t \in 1 .. MaxPriceTail }

\* the target taken from the last row of the window
TargetIndexInWindow(t, s) == t + s - 1

\* the row of the target: data[i+seq_length]
TargetIndex(t, s) == t + s

\* range(len(data) - seq_length)
PriceRange(n, s) == [start |-> 0, stop |-> n - s]

PriceInit ==
  /\ price_seq_length \in PriceSeqLengths
  /\ price_data \in PriceArrays(price_seq_length)
  /\ price_i = PriceRange(Len0(price_data), price_seq_length).start
  /\ xs = <<>>
  /\ ys = <<>>
  /\ price_pc = "loop"
  /\ fn = "none"
  /\ closes = <<>>
  /\ look_ahead = 0
  /\ seq_length = 0
  /\ i = 0
  /\ sequences = <<>>
  /\ labels = <<>>
  /\ anchors = <<>>
  /\ close_reads = {}
  /\ pc = "idle"
  /\ data = <<>>
  /\ strategy = "none"
  /\ result = NoneResult
  /\ metrics = <<>>
  /\ spc = "idle"
  /\ asset_idx = 0
  /\ results = <<>>
  /\ log = <<>>
  /\ evaluated = {}
  /\ summary = <<>>
  /\ saved = <<>>
  /\ verdict = "none"
  /\ mpc = "idle"
  /\ ifn = "none"
  /\ ohlcv = <<>>
  /\ features = <<>>
  /\ ind_i = 0
  /\ ipc = "idle"
  /\ train_X = <<>>
  /\ train_y = <<>>
  /\ apc = "idle"
  /\ epoch = 0
  /\ best_val_acc = 0
  /\ model_path = "unbound"
  /\ checkpoint = 0
  /\ val_history = <<>>
  /\ tpc = "idle"
  /\ history_prices = <<>>
  /\ is_fitted = FALSE
  /\ model_file = [content |-> "none", version |-> 0]
  /\ fetched = 0
  /\ export_failures = 0
  /\ step_outcome = "none"
  /\ loop_pc = "idle"

\* one pass of `for i in range(len(data) - seq_length)`: x = data[i:i+seq_length],
\* y = data[i+seq_length][0]; an index outside the array raises IndexError
PriceStep ==
  /\ price_pc = "loop"
  /\ price_i < PriceRange(Len0(price_data), price_seq_length).stop
  /\ LET x == SliceIndices(price_i, price_i + price_seq_length, Len0(price_data))
         target == TargetIndex(price_i, price_seq_length)
     IN  IF ValidIndex(price_data, target)
         THEN /\ xs' = Append(xs, x)
              /\ ys' = Append(ys, [index |-> target, value |-> At(price_data, target)])
              /\ price_i' = price_i + 1
              /\ price_pc' = price_pc
         ELSE /\ price_pc' = "IndexError"
              /\ UNCHANGED <<xs, ys, price_i>>
  /\ UNCHANGED <<price_data, price_seq_length>>
  /\ UNCHANGED seqVars
  /\ UNCHANGED stratVars
  /\ UNCHANGED mainVars
  /\ UNCHANGED indVars
  /\ UNCHANGED alignVars
  /\ UNCHANGED lstmVars
  /\ UNCHANGED trainerVars

\* return np.array(xs), np.array(ys)
PriceReturn ==
  /\ price_pc = "loop"
  /\ ~(price_i < PriceRange(Len0(price_data), price_seq_length).stop)
  /\ price_pc' = "returned"
  /\ UNCHANGED <<price_data, price_seq_length, price_i, xs, ys>>
  /\ UNCHANGED seqVars
  /\ UNCHANGED stratVars
  /\ UNCHANGED mainVars
  /\ UNCHANGED indVars
  /\ UNCHANGED alignVars
  /\ UNCHANGED lstmVars
  /\ UNCHANGED trainerVars

PriceNext ==
  \/ PriceStep
  \/ PriceReturn

----------------------------------------------------------------------------
(* train_lstm_model: the training loop and its best-model checkpoint *)

\* the validation accuracies an epoch can end with, in percent
ValAccuracies == {0, 40, 70}

\* the locals before `for epoch in range(EPOCHS)`: best_val_acc = 0.0 and
\* model_path not yet assigned
LstmInit ==
  /\ epoch = 0
  /\ best_val_acc = 0
  /\ model_path = "unbound"
  /\ checkpoint = 0
  /\ val_history = <<>>
  /\ tpc = "loop"
  /\ fn = "none"
  /\ closes = <<>>
  /\ look_ahead = 0
  /\ seq_length = 0
  /\ i = 0
  /\ sequences = <<>>
  /\ labels = <<>>
  /\ anchors = <<>>
  /\ close_reads = {}
  /\ pc = "idle"
  /\ data = <<>>
  /\ strategy = "none"
  /\ result = NoneResult
  /\ metrics = <<>>
  /\ spc = "idle"
  /\ asset_idx = 0
  /\ results = <<>>
  /\ log = <<>>
  /\ evaluated = {}
  /\ summary = <<>>
  /\ saved = <<>>
  /\ verdict = "none"
  /\ mpc = "idle"
  /\ ifn = "none"
  /\ ohlcv = <<>>
  /\ features = <<>>
  /\ ind_i = 0
  /\ ipc = "idle"
  /\ train_X = <<>>
  /\ train_y = <<>>
  /\ apc = "idle"
  /\ price_data = <<>>
  /\ price_seq_length = 0
  /\ price_i = 0
  /\ xs = <<>>
  /\ ys = <<>>
  /\ price_pc = "idle"
  /\ history_prices = <<>>
  /\ is_fitted = FALSE
  /\ model_file = [content |-> "none", version |-> 0]
  /\ fetched = 0
  /\ export_failures = 0
  /\ step_outcome = "none"
  /\ loop_pc = "idle"

\* val_acc > best_val_acc
Improves(val_acc, best) == val_acc > best

\* one epoch: training, validation (val_acc), and `if val_acc > best_val_acc`
\* the assignment of best_val_acc and model_path and torch.save
LstmEpoch ==
  /\ tpc = "loop"
  /\ epoch < MaxEpochs
  /\ \E val_acc \in ValAccuracies :
       /\ val_history' = Append(val_history, val_acc)
       /\ IF Improves(val_acc, best_val_acc)
          THEN /\ best_val_acc' = val_acc
               /\ model_path' = "lstm.pth"
               /\ checkpoint' = epoch + 1
          ELSE UNCHANGED <<best_val_acc, model_path, checkpoint>>
  /\ epoch' = epoch + 1
  /\ tpc' = tpc
  /\ UNCHANGED seqVars
  /\ UNCHANGED stratVars
  /\ UNCHANGED mainVars
  /\ UNCHANGED indVars
  /\ UNCHANGED alignVars
  /\ UNCHANGED priceVars
  /\ UNCHANGED trainerVars

\* after the loop: print(f"... Model saved: {model_path}") reads model_path;
\* a local that was never assigned raises UnboundLocalError
LstmAfterLoop ==
  /\ tpc = "loop"
  /\ epoch = MaxEpochs
  /\ tpc' = (IF model_path = "unbound" THEN "UnboundLocalError" ELSE "done")
  /\ UNCHANGED <<epoch, best_val_acc, model_path, checkpoint, val_history>>
  /\ UNCHANGED seqVars
  /\ UNCHANGED stratVars
  /\ UNCHANGED mainVars
  /\ UNCHANGED indVars
  /\ UNCHANGED alignVars
  /\ UNCHANGED priceVars
  /\ UNCHANGED trainerVars

LstmNext ==
  \/ LstmEpoch
  \/ LstmAfterLoop

----------------------------------------------------------------------------
(* train_enhanced_24h.py: train_step and the loop of main *)

\* the literals of train_step: `if len(history_prices) > 1000` and
\* `if len(history_prices) < 5`
HISTORY_LIMIT == 1000
MIN_HISTORY == 5

\* module load: history_prices = [], is_fitted = False; the file at
\* ONNX_PATH may be there from an earlier run (version 0)
TrainerInit ==
  /\ history_prices = <<>>
  /\ is_fitted = FALSE
  /\ model_file \in {[content |-> "none", version |-> 0],
                     [content |-> "onnx", version |-> 0]}
  /\ fetched = 0
  /\ export_failures = 0
  /\ step_outcome = "none"
  /\ loop_pc = "running"
  /\ fn = "none"
  /\ closes = <<>>
  /\ look_ahead = 0
  /\ seq_length = 0
  /\ i = 0
  /\ sequences = <<>>
  /\ labels = <<>>
  /\ anchors = <<>>
  /\ close_reads = {}
  /\ pc = "idle"
  /\ data = <<>>
  /\ strategy = "none"
  /\ result = NoneResult
  /\ metrics = <<>>
  /\ spc = "idle"
  /\ asset_idx = 0
  /\ results = <<>>
  /\ log = <<>>
  /\ evaluated = {}
  /\ summary = <<>>
  /\ saved = <<>>
  /\ verdict = "none"
  /\ mpc = "idle"
  /\ ifn = "none"
  /\ ohlcv = <<>>
  /\ features = <<>>
  /\ ind_i = 0
  /\ ipc = "idle"
  /\ train_X = <<>>
  /\ train_y = <<>>
  /\ apc = "idle"
  /\ price_data = <<>>
  /\ price_seq_length = 0
  /\ price_i = 0
  /\ xs = <<>>
  /\ ys = <<>>
  /\ price_pc = "idle"
  /\ epoch = 0
  /\ best_val_acc = 0
  /\ model_path = "unbound"
  /\ checkpoint = 0
  /\ val_history = <<>>
  /\ tpc = "idle"

\* history_prices.pop(): the newest price removed
EvictNewest(h) == SubSeq(h, 1, Len(h) - 1)

\* history_prices.pop(0)
Evict(h) == Tail(h)

\* history_prices.append(price) and the cut to the last 1000 prices
HistoryAfterFetch(h, price) ==
  LET appended == Append(h, price)
  IN  IF Len(appended) > HISTORY_LIMIT THEN Evict(appended) ELSE appended

\* training from the second price on
ReadyToTrainFromTwo(h) == ~(Len(h) < 2)

\* the negation of `if len(history_prices) < 5: return`
ReadyToTrain(h) == ~(Len(h) < MIN_HISTORY)

\* the step whose fetch fails still appends a placeholder
TrainStepFetchFailedAppends ==
  /\ loop_pc = "running"
  /\ fetched < MaxFetches
  /\ history_prices' = Append(history_prices, 0)
  /\ step_outcome' = "fetch_failed"
  /\ UNCHANGED <<is_fitted, model_file, fetched, export_failures, loop_pc>>
  /\ UNCHANGED seqVars
  /\ UNCHANGED stratVars
  /\ UNCHANGED mainVars
  /\ UNCHANGED indVars
  /\ UNCHANGED alignVars
  /\ UNCHANGED priceVars
  /\ UNCHANGED lstmVars

\* train_step when fetch_price returns None (any exception of the request):
\* `if price is None: return`, then the loop of main sleeps and goes on
TrainStepFetchFailed ==
  /\ loop_pc = "running"
  /\ fetched < MaxFetches
  /\ step_outcome' = "fetch_failed"
  /\ UNCHANGED <<history_prices, is_fitted, model_file, fetched, export_failures, loop_pc>>
  /\ UNCHANGED seqVars
  /\ UNCHANGED stratVars
  /\ UNCHANGED mainVars
  /\ UNCHANGED indVars
  /\ UNCHANGED alignVars
  /\ UNCHANGED priceVars
  /\ UNCHANGED lstmVars

\* train_step with a price and fewer than 5 prices held: append and return
TrainStepCollecting ==
  /\ loop_pc = "running"
  /\ fetched < MaxFetches
  /\ LET h == HistoryAfterFetch(history_prices, fetched + 1)
     IN  /\ ~ReadyToTrain(h)
         /\ history_prices' = h
  /\ fetched' = fetched + 1
  /\ step_outcome' = "collecting"
  /\ UNCHANGED <<is_fitted, model_file, export_failures, loop_pc>>
  /\ UNCHANGED seqVars
  /\ UNCHANGED stratVars
  /\ UNCHANGED mainVars
  /\ UNCHANGED indVars
  /\ UNCHANGED alignVars
  /\ UNCHANGED priceVars
  /\ UNCHANGED lstmVars

\* train_step with a price and at least 5 prices held: partial_fit (or fit
\* in the except branch) sets is_fitted, then the export under
\* `if is_fitted`: the file is written, or convert_sklearn raises (file
\* untouched), or the write raises after open(ONNX_PATH, "wb") has
\* truncated the file; the export's exception is caught
TrainStepTrain ==
  /\ loop_pc = "running"
  /\ fetched < MaxFetches
  /\ LET h == HistoryAfterFetch(history_prices, fetched + 1)
     IN  /\ ReadyToTrain(h)
         /\ history_prices' = h
  /\ fetched' = fetched + 1
  /\ is_fitted' = TRUE
  /\ \E export \in {"written", "convert_raises", "write_raises"} :
       /\ (export # "written") => export_failures < MaxExportFailures
       /\ export_failures' = export_failures + (IF export = "written" THEN 0 ELSE 1)
       /\ model_file' =
            (CASE export = "written" -> [content |-> "onnx", version |-> fetched + 1]
               [] export = "convert_raises" -> model_file
               [] export = "write_raises" -> [content |-> "partial", version |-> fetched + 1])
       /\ step_outcome' = export
  /\ UNCHANGED loop_pc
  /\ UNCHANGED seqVars
  /\ UNCHANGED stratVars
  /\ UNCHANGED mainVars
  /\ UNCHANGED indVars
  /\ UNCHANGED alignVars
  /\ UNCHANGED priceVars
  /\ UNCHANGED lstmVars

\* train_step with a price and at least 5 prices held in which
\* scaler.fit_transform raises, or partial_fit (or model.score after it,
\* with is_fitted already assigned) and then fit raise: the exception
\* leaves train_step and main
TrainStepRaises ==
  /\ loop_pc = "running"
  /\ fetched < MaxFetches
  /\ LET h == HistoryAfterFetch(history_prices, fetched + 1)
     IN  /\ ReadyToTrain(h)
         /\ history_prices' = h
  /\ fetched' = fetched + 1
  /\ \E fitted_before_raise \in BOOLEAN : is_fitted' = (is_fitted \/ fitted_before_raise)
  /\ step_outcome' = "raised"
  /\ loop_pc' = "crashed"
  /\ UNCHANGED <<model_file, export_failures>>
  /\ UNCHANGED seqVars
  /\ UNCHANGED stratVars
  /\ UNCHANGED mainVars
  /\ UNCHANGED indVars
  /\ UNCHANGED alignVars
  /\ UNCHANGED priceVars
  /\ UNCHANGED lstmVars

TrainerNext ==
  \/ TrainStepFetchFailed
  \/ TrainStepCollecting
  \/ TrainStepTrain
  \/ TrainStepRaises

----------------------------------------------------------------------------
(* The end-to-end scenarios: series of 300 candles, seq_length 30, horizon 6 *)

ScenarioConfig == [length |-> 300, seq_length |-> 30, horizon |-> 6]

\* the constant series: every candle flat at the price p with the volume v
ConstantPrices == {1, 2, 50}
ConstantVolumes == {0, 1}
ConstantSeries ==
  { [k \in 0 .. (ScenarioConfig.length - 1) |-> Candle(p, p, p, v)] :
      p \in ConstantPrices, v \in ConstantVolumes }

\* the strictly increasing close arrays: from a base price the closes rise
\* by a and b in turn.  With unit steps a close of 4000 is followed six
\* candles later by 4006, a forward return of exactly 0.15 %
RisingBases == {1, 2000, 3760, 3770, 6000}
Rising(base, steps) == RisingArray(ScenarioConfig.length, base, steps)
RisingSeries == { Rising(base, steps) : base \in RisingBases, steps \in RisingSteps }

\* either the data preparation of a training run on a constant series, or a
\* call of create_sequences on a strictly increasing close array
ScenarioInit ==
  /\ look_ahead = ScenarioConfig.horizon
  /\ sequences = <<>>
  /\ labels = <<>>
  /\ anchors = <<>>
  /\ close_reads = {}
  /\ features = <<>>
  /\ ind_i = 0
  /\ \/ /\ ifn \in IndicatorFunctions
        /\ ohlcv \in ConstantSeries
        /\ ipc = "start"
        /\ fn = "none"
        /\ closes = <<>>
        /\ seq_length = (IF ifn = "calculate_technical_indicators"
                         THEN ScenarioConfig.seq_length ELSE 0)
        /\ i = 0
        /\ pc = "idle"
     \/ /\ ifn = "none"
        /\ ohlcv = <<>>
        /\ ipc = "idle"
        /\ fn = "create_sequences"
        /\ closes \in RisingSeries
        /\ seq_length = ScenarioConfig.seq_length
        /\ i = SequencesRange(Len0(closes), seq_length, look_ahead).start
        /\ pc = "loop"
  /\ data = <<>>
  /\ strategy = "none"
  /\ result = NoneResult
  /\ metrics = <<>>
  /\ spc = "idle"
  /\ asset_idx = 0
  /\ results = <<>>
  /\ log = <<>>
  /\ evaluated = {}
  /\ summary = <<>>
  /\ saved = <<>>
  /\ verdict = "none"
  /\ mpc = "idle"
  /\ train_X = <<>>
  /\ train_y = <<>>
  /\ apc = "idle"
  /\ price_data = <<>>
  /\ price_seq_length = 0
  /\ price_i = 0
  /\ xs = <<>>
  /\ ys = <<>>
  /\ price_pc = "idle"
  /\ epoch = 0
  /\ best_val_acc = 0
  /\ model_path = "unbound"
  /\ checkpoint = 0
  /\ val_history = <<>>
  /\ tpc = "idle"
  /\ history_prices = <<>>
  /\ is_fitted = FALSE
  /\ model_file = [content |-> "none", version |-> 0]
  /\ fetched = 0
  /\ export_failures = 0
  /\ step_outcome = "none"
  /\ loop_pc = "idle"

----------------------------------------------------------------------------
vars == <<seqVars, stratVars, mainVars, indVars, alignVars, priceVars, lstmVars, trainerVars>>

SpecBacktest == MainInit /\ [][MainNext]_vars

SpecVerdict == VerdictInit /\ [][VerdictNext]_vars

SpecStrategies == StratInit /\ [][StratNext]_vars

SpecMetrics == MetricsInit /\ [][MetricsNext]_vars

SpecLabels == SeqInit /\ [][SeqNext]_vars

SpecIndicators == IndInit /\ [][IndNext]_vars

SpecPipeline == PipelineInit /\ [][PipelineNext]_vars

SpecScenario == ScenarioInit /\ [][PipelineNext]_vars

SpecAlign == AlignInit /\ [][AlignNext]_vars

SpecPrice == PriceInit /\ [][PriceNext]_vars

SpecLstm == LstmInit /\ [][LstmNext]_vars

SpecTrainer == TrainerInit /\ [][TrainerNext]_vars

----------------------------------------------------------------------------
(* Properties of the labeling functions, checked under SpecLabels *)

\* the forward return of anchor a against the running function's threshold,
\* cross-multiplied (closes[a] > 0): sign of return - threshold, return + threshold
AboveThreshold(a) ==
  (closes[a + look_ahead] - closes[a]) * 100 * Threshold(fn)[2]
    > Threshold(fn)[1] * closes[a]
BelowMinusThreshold(a) ==
  (closes[a + look_ahead] - closes[a]) * 100 * Threshold(fn)[2]
    < (-Threshold(fn)[1]) * closes[a]
AtThreshold(a) ==
  \/ (closes[a + look_ahead] - closes[a]) * 100 * Threshold(fn)[2]
       = Threshold(fn)[1] * closes[a]
  \/ (closes[a + look_ahead] - closes[a]) * 100 * Threshold(fn)[2]
       = (-Threshold(fn)[1]) * closes[a]

\* C1: every label appended at an anchor with a non-zero close is BUY exactly
\* when the forward return is strictly above the threshold, SELL exactly when
\* it is strictly below minus the threshold and HOLD otherwise; a return equal
\* to +threshold or -threshold is HOLD (0.15 in create_sequences, 2.0 in
\* create_labels).
C1_LabelLaw ==
  \A j \in 1 .. Len(labels) :
    LET a == anchors[j] IN
      closes[a] # 0 =>
        /\ (labels[j] = BUY) <=> AboveThreshold(a)
        /\ (labels[j] = SELL) <=> BelowMinusThreshold(a)
        /\ (labels[j] = HOLD) <=> (~AboveThreshold(a) /\ ~BelowMinusThreshold(a))
        /\ AtThreshold(a) => labels[j] = HOLD

\* a finished run that labeled one anchor BUY, one SELL, and one at exactly
\* +threshold and one at exactly -threshold HOLD
C1_Witness ==
  /\ pc = "returned"
  /\ \E j \in 1 .. Len(labels) : closes[anchors[j]] # 0 /\ labels[j] = BUY
  /\ \E j \in 1 .. Len(labels) : closes[anchors[j]] # 0 /\ labels[j] = SELL
  /\ \E j \in 1 .. Len(labels) :
       /\ closes[anchors[j]] # 0
       /\ closes[anchors[j] + look_ahead] > closes[anchors[j]]
       /\ AtThreshold(anchors[j])
       /\ labels[j] = HOLD
  /\ \E j \in 1 .. Len(labels) :
       /\ closes[anchors[j]] # 0
       /\ closes[anchors[j] + look_ahead] < closes[anchors[j]]
       /\ AtThreshold(anchors[j])
       /\ labels[j] = HOLD

\* C2: create_sequences returns exactly max(0, matrix_length - seq_length -
\* look_ahead) windows with matrix_length = len(closes) - 200; the anchors are
\* consecutive from 200 + seq_length (strictly increasing, stride 1, none
\* repeated) and every valid anchor has produced exactly one window.
C2_WindowCount ==
  fn = "create_sequences" =>
    /\ Len(sequences) = Len(anchors) /\ Len(labels) = Len(anchors)
    /\ \A j \in 1 .. Len(anchors) : anchors[j] = start_idx + seq_length + (j - 1)
    /\ pc = "returned" =>
         /\ Len(sequences)
              = Max(0, (Len0(closes) - start_idx) - seq_length - look_ahead)
         /\ \A a \in 0 .. Len0(closes) :
              (a - seq_length >= start_idx /\ a + look_ahead < Len0(closes))
                => Cardinality({j \in 1 .. Len(anchors) : anchors[j] = a}) = 1

\* a finished create_sequences run that returned more than one window
C2_Witness ==
  /\ fn = "create_sequences"
  /\ pc = "returned"
  /\ Len(sequences) >= 2

\* C3: every window of create_sequences has an anchor i with i - seq_length
\* >= 200 and i + look_ahead < len(closes); its feature rows are the seq_length
\* rows i - seq_length .. i - 1, all at positions >= 200, and no index outside
\* [0, len(closes)) is read (no IndexError).
C3_WindowBounds ==
  fn = "create_sequences" =>
    /\ pc # "IndexError"
    /\ close_reads \subseteq 0 .. (Len0(closes) - 1)
    /\ \A j \in 1 .. Len(sequences) :
         /\ anchors[j] - seq_length >= start_idx
         /\ anchors[j] + look_ahead < Len0(closes)
         /\ Len(sequences[j]) = seq_length
         /\ \A k \in 1 .. Len(sequences[j]) :
              /\ sequences[j][k] = anchors[j] - seq_length + (k - 1)
              /\ sequences[j][k] >= start_idx
              /\ sequences[j][k] < Len0(closes)

\* a finished create_sequences run whose last window ends at the last anchor
\* the series allows
C3_Witness ==
  /\ fn = "create_sequences"
  /\ pc = "returned"
  /\ Len(sequences) >= 1
  /\ anchors[Len(anchors)] + look_ahead = Len0(closes) - 1
  /\ sequences[1][1] = start_idx

\* C10: an anchor whose close is 0 is excluded from the results: no label is
\* appended for it.
C10_ZeroCloseAnchorExcluded ==
  \A j \in 1 .. Len(labels) : closes[anchors[j]] # 0

\* C11: when matrix_length - seq_length - look_ahead <= 0 (matrix_length =
\* len(closes) - 200; seq_length is 0 in create_labels) the function signals
\* InsufficientDataError: it does not return normally with an empty result.
C11_InsufficientDataSignalled ==
  ((Len0(closes) - start_idx) - seq_length - look_ahead <= 0) => pc # "returned"

----------------------------------------------------------------------------
(* Properties of calculate_metrics, checked under SpecMetrics *)

\* the pairs of `result` whose prediction equals the actual direction
CorrectPairs == { k \in 1 .. Len(result.predictions) :
                    result.predictions[k] = result.actuals[k] }
\* the pairs whose prediction is the fallback 0
ZeroPairs == { k \in 1 .. Len(result.predictions) : result.predictions[k] = 0 }
Evaluated == spc = "done" /\ result.ok /\ Len(result.predictions) > 0

\* C4 as stated: for every non-empty list of pairs the reported accuracy is
\* exactly 100 * correct / total, correct being the number of pairs with
\* predicted == actual (a predicted 0 never among them).
C4_AccuracyExact ==
  Evaluated =>
    /\ Len(metrics) = 1
    /\ metrics[1].accuracy * Len(result.predictions)
         = 100 * 100 * Cardinality(CorrectPairs \ ZeroPairs)

\* C4 amended: the reported accuracy is 100 * correct / total rounded to two
\* decimal places (within half a hundredth of it), correct being the number
\* of pairs with predicted == actual; a pair predicted 0 is never correct.
C4_AccuracyRounded ==
  Evaluated =>
    /\ Len(metrics) = 1
    /\ LET total == Len(result.predictions)
           exact == 100 * 100 * Cardinality(CorrectPairs \ ZeroPairs)
           diff == metrics[1].accuracy * total - exact
       IN  /\ 2 * diff <= total
           /\ 2 * diff >= -total
    /\ ZeroPairs \cap CorrectPairs = {}
    /\ (ZeroPairs = DOMAIN result.predictions) => metrics[1].accuracy = 0

\* three evaluated pairs, one of them predicted 0, with an accuracy that is
\* not a whole number of hundredths before rounding
C4_Witness ==
  /\ Evaluated
  /\ Len(result.predictions) = 3
  /\ Cardinality(CorrectPairs) = 2
  /\ Cardinality(ZeroPairs) = 1
  /\ metrics[1].accuracy = 6667

\* C5: total_return is (+1 per correct pair) + (-1 per incorrect pair), that
\* is correct - incorrect percent, not compounded; it is +count with accuracy
\* 100.0 when every pair matches and -count with accuracy 0.0 when none does.
C5_FlatReturn ==
  Evaluated =>
    LET total == Len(result.predictions)
        correct == Cardinality(CorrectPairs)
    IN  /\ metrics[1].total_return = 100 * (correct - (total - correct))
        /\ correct = total =>
             /\ metrics[1].accuracy = 100 * 100
             /\ metrics[1].total_return = 100 * total
        /\ correct = 0 =>
             /\ metrics[1].accuracy = 0
             /\ metrics[1].total_return = -100 * total

\* several pairs evaluated, all matching
C5_Witness ==
  /\ Evaluated
  /\ Len(result.predictions) >= 3
  /\ Cardinality(CorrectPairs) = Len(result.predictions)
  /\ metrics[1].total_return = 100 * Len(result.predictions)

----------------------------------------------------------------------------
(* Properties of the strategies, checked under SpecStrategies *)

\* C6: in every strategy the actual direction at index i is +1 exactly when
\* close[i+1] > close[i] and -1 otherwise; equal closes give -1, never 0.
C6_ActualDirection ==
  (spc \in {"ran", "done"} /\ result.ok) =>
    \A k \in 1 .. Len(result.actuals) :
      LET idx == SEQ_LENGTH + k - 1 IN
        /\ result.actuals[k] \in {1, -1}
        /\ (result.actuals[k] = 1) <=> (data[idx + 1] > data[idx])
        /\ (data[idx + 1] = data[idx]) => result.actuals[k] = -1

\* a strategy has returned actuals holding a tie (as -1), a rise and a fall
C6_Witness ==
  /\ spc = "ran"
  /\ result.ok
  /\ \E k \in 1 .. Len(result.actuals) :
       data[SEQ_LENGTH + k] = data[SEQ_LENGTH + k - 1] /\ result.actuals[k] = -1
  /\ \E k \in 1 .. Len(result.actuals) : result.actuals[k] = 1
  /\ \E k \in 1 .. Len(result.actuals) :
       data[SEQ_LENGTH + k] < data[SEQ_LENGTH + k - 1] /\ result.actuals[k] = -1

\* the candle array rises from every close to the next
RisingCloses == \A k \in 1 .. (Len0(data) - 1) : data[k - 1] < data[k]

\* C20: on a strictly increasing close series that yields at least one
\* prediction, buy-and-hold predicts +1 at every index from 30 to
\* len(data) - 2, every actual is +1, and calculate_metrics gives accuracy
\* 100.0 and a total return equal to the number of predictions (accuracy
\* and returns in hundredths)
C20_RisingBuyHold ==
  (/\ strategy = "Buy & Hold"
   /\ spc = "done"
   /\ RisingCloses
   /\ Len0(data) >= buyhold_start + 2) =>
    /\ result.ok
    /\ Len(result.predictions) = Len0(data) - 1 - buyhold_start
    /\ \A k \in 1 .. Len(result.predictions) :
         result.predictions[k] = 1 /\ result.actuals[k] = 1
    /\ Len(metrics) = 1
    /\ metrics[1].accuracy = 100 * 100
    /\ metrics[1].total_return = 100 * Len(result.predictions)
    /\ metrics[1].num_predictions = Len(result.predictions)

\* buy-and-hold has been scored on a rising series with uneven steps that
\* yields several predictions
C20_Witness ==
  /\ strategy = "Buy & Hold"
  /\ spc = "done"
  /\ RisingCloses
  /\ Len(result.predictions) >= 2
  /\ data[2] - data[1] # data[1] - data[0]
  /\ metrics[1].accuracy = 100 * 100
  /\ metrics[1].total_return = 100 * Len(result.predictions)

\* C23: on a data array of length n a strategy that returns lists returns
\* max(0, n - 31) predictions and as many actuals, record k being that of
\* index 30 + k - 1; the actuals are those of the two baselines and of
\* ai_strategy with loaded artifacts; every plain index read lies in
\* 0 .. n-1 and every slice in 0 .. n
C23_RecordPerIndex ==
  (spc \in {"ran", "done"} /\ result.ok) =>
    LET n == Len0(data)
        count == Max(0, n - (SEQ_LENGTH + 1))
    IN  /\ Len(result.predictions) = count
        /\ Len(result.actuals) = count
        /\ \A k \in 1 .. count :
             result.actuals[k]
               = (IF data[SEQ_LENGTH + k] > data[SEQ_LENGTH + k - 1] THEN 1 ELSE -1)
        /\ (strategy = "Heuristic") =>
             \A k \in 1 .. count :
               result.predictions[k] = HeuristicPrediction(data, SEQ_LENGTH + k - 1)
        /\ result.actuals = heuristic_strategy(data).actuals
        /\ result.actuals = buyhold_strategy(data).actuals
        /\ result.actuals
             = ai_strategy(TRUE, TRUE, TRUE, data,
                           [k \in 1 .. AiCount(data) |-> "raise"]).actuals
        /\ \A r \in IndexReads(strategy, data) : 0 <= r /\ r <= n - 1
        /\ \A sl \in SliceReads(strategy, data) :
             0 <= sl[1] /\ sl[1] <= sl[2] /\ sl[2] <= n
        /\ count > 0 =>
             /\ SEQ_LENGTH \in IndexReads(strategy, data)
             /\ n - 1 \in IndexReads(strategy, data)

\* ai_strategy has returned several records on an array whose closes rise
\* and fall
C23_Witness ==
  /\ spc = "ran"
  /\ strategy = "AI Model"
  /\ result.ok
  /\ Len(result.predictions) = Len0(data) - (SEQ_LENGTH + 1)
  /\ Len(result.predictions) >= 3
  /\ \E k \in 1 .. Len(result.actuals) : result.actuals[k] = 1
  /\ \E k \in 1 .. Len(result.actuals) : result.actuals[k] = -1

----------------------------------------------------------------------------
(* Properties of main, checked under SpecBacktest *)

AssetSet == { ASSETS[k] : k \in 1 .. Len(ASSETS) }
RowsFor(name) == SelectSeq(results, LAMBDA r : r.strategy = name)
RowsAt(asset, name) ==
  SelectSeq(results, LAMBDA r : r.asset = asset /\ r.strategy = name)
ColumnSum(rows, column) == SumSeq([k \in 1 .. Len(rows) |-> rows[k][column]])
LinesFor(name) == SelectSeq(summary, LAMBDA l : l.strategy = name)
Logged(asset, message) == \E k \in 1 .. Len(log) : log[k] = <<asset, message>>
Processed(asset) == \E k \in 1 .. (asset_idx - 1) : ASSETS[k] = asset

\* C7: the aggregate of a strategy is the arithmetic mean of its per-asset
\* accuracy values and of its per-asset total_return values (the sum of the
\* rows' values over the number of rows), whatever the rows' sample counts.
C7_MeanOfMeans ==
  mpc = "done" =>
    \A name \in StrategyNames :
      LET rows == RowsFor(name)
          lines == LinesFor(name)
      IN  /\ Len(lines) = (IF Len(rows) > 0 THEN 1 ELSE 0)
          /\ Len(rows) > 0 =>
               /\ lines[1].avg_acc.kind = "fin"
               /\ lines[1].avg_acc.num * Len(rows)
                    = ColumnSum(rows, "accuracy") * lines[1].avg_acc.den
               /\ lines[1].avg_ret.num * Len(rows)
                    = ColumnSum(rows, "total_return") * lines[1].avg_ret.den

\* a finished run in which the Buy & Hold rows of two assets have different
\* sample counts and the reported mean differs from the pooled accuracy
C7_Witness ==
  /\ mpc = "done"
  /\ LET rows == RowsFor("Buy & Hold")
         lines == LinesFor("Buy & Hold")
     IN  /\ Len(rows) >= 2
         /\ \E j, k \in 1 .. Len(rows) : rows[j].num_predictions # rows[k].num_predictions
         /\ Len(lines) = 1
         /\ lines[1].avg_acc.num * PooledAccuracy(rows).den
              # PooledAccuracy(rows).num * lines[1].avg_acc.den

\* C8: results holds at most one row per (asset, strategy); the row's
\* num_predictions is the number n of pairs the strategy returned for the
\* asset, and its accuracy and total_return count each of the n pairs once:
\* for some c of n correct, total_return = c - (n - c) and accuracy is
\* 100 * c / n to two decimals.
C8_NoDoubleCount ==
  \A asset \in AssetSet, name \in StrategyNames :
    LET rows == RowsAt(asset, name) IN
      /\ Len(rows) <= 1
      /\ Len(rows) = 1 =>
           LET n == rows[1].num_predictions IN
             /\ <<asset, name, n>> \in evaluated
             /\ \A e \in evaluated : (e[1] = asset /\ e[2] = name) => e[3] = n
             /\ \E c \in 0 .. n :
                  /\ rows[1].total_return = 100 * (c - (n - c))
                  /\ 2 * (rows[1].accuracy * n - 100 * 100 * c) <= n
                  /\ 2 * (rows[1].accuracy * n - 100 * 100 * c) >= -n

\* a finished run with all twelve (asset, strategy) rows, some of them over
\* two pairs
C8_Witness ==
  /\ mpc = "done"
  /\ Len(results) = 3 * Len(ASSETS)
  /\ \E k \in 1 .. Len(results) : results[k].num_predictions = 2
  /\ \E k \in 1 .. Len(results) : results[k].num_predictions = 1

ArtifactMissing(asset) ==
  Logged(asset, "Model not found") \/ Logged(asset, "Scaler not found")
AiFailed(asset) ==
  ArtifactMissing(asset) \/ Logged(asset, "Failed to load ONNX model")
Fetched(asset) == Processed(asset) /\ ~Logged(asset, "Failed to fetch data")
\* the strategy was run on the asset, and left a row exactly when it made predictions
Evaluates(asset, name) ==
  \E n \in 0 .. (MaxBacktestPredictions + 1) :
    /\ <<asset, name, n>> \in evaluated
    /\ Len(RowsAt(asset, name)) = (IF n > 0 THEN 1 ELSE 0)

\* C9: an asset whose model or scaler file is missing gets no AI Model row
\* and no AI evaluation, so it is not in the AI aggregate, while its Heuristic
\* and Buy & Hold strategies and every strategy of every other fetched asset
\* are evaluated.
C9_MissingArtifactSkipped ==
  \A asset \in AssetSet :
    ArtifactMissing(asset) =>
      /\ Len(RowsAt(asset, "AI Model")) = 0
      /\ \A e \in evaluated : ~(e[1] = asset /\ e[2] = "AI Model")
      /\ Evaluates(asset, "Heuristic")
      /\ Evaluates(asset, "Buy & Hold")
      /\ \A other \in AssetSet \ {asset} :
           Fetched(other) =>
             /\ Evaluates(other, "Heuristic")
             /\ Evaluates(other, "Buy & Hold")
             /\ ~AiFailed(other) => Evaluates(other, "AI Model")
      /\ mpc = "done" =>
           /\ \A k \in 1 .. Len(saved) :
                ~(saved[k].asset = asset /\ saved[k].strategy = "AI Model")
           /\ \A k \in 1 .. Len(LinesFor("AI Model")) :
                LinesFor("AI Model")[k].avg_acc.den
                  = Cardinality({ a \in AssetSet \ {asset} :
                                    Len(RowsAt(a, "AI Model")) = 1 })

\* a finished run in which ETH's model file and SOL's scaler file were
\* missing: both kept their baseline rows, BTC and LTC their AI Model rows
C9_Witness ==
  /\ mpc = "done"
  /\ Logged("ETH", "Model not found")
  /\ Logged("SOL", "Scaler not found")
  /\ Len(RowsAt("ETH", "Heuristic")) = 1
  /\ Len(RowsAt("ETH", "Buy & Hold")) = 1
  /\ Len(RowsAt("SOL", "Buy & Hold")) = 1
  /\ Len(RowsAt("BTC", "AI Model")) = 1
  /\ Len(RowsAt("LTC", "AI Model")) = 1
  /\ Len(LinesFor("AI Model")) = 1

\* C24: main never stops on an exception: for every combination of
\* per-asset outcomes, an empty results list included, it reaches the end of
\* the summary with the results file written
C24_MainCompletes ==
  /\ mpc # "KeyError"
  /\ mpc = "done" => saved = results

----------------------------------------------------------------------------
(* Properties of the summary of main, checked under SpecVerdict *)

\* C21: when main finishes, the verdict is SUCCESS exactly when the mean of
\* the AI Model rows' accuracies is at least 55 (a mean of exactly 55
\* included) and FAILURE otherwise; without an AI Model row no verdict is
\* printed.  Accuracies are in hundredths of a percent.
C21_ThresholdVerdict ==
  mpc = "done" =>
    LET rows == RowsFor("AI Model")
    IN  /\ Len(rows) = 0 => verdict = "none"
        /\ Len(rows) > 0 =>
             /\ verdict \in {"SUCCESS", "FAILURE"}
             /\ (verdict = "SUCCESS")
                  <=> (ColumnSum(rows, "accuracy") >= 55 * 100 * Len(rows))
             /\ (ColumnSum(rows, "accuracy") = 55 * 100 * Len(rows))
                  => verdict = "SUCCESS"

\* a finished run whose two AI Model rows, of accuracies 50 and 60, have a
\* mean of exactly 55, reported as SUCCESS
C21_Witness ==
  /\ mpc = "done"
  /\ Len(RowsFor("AI Model")) = 2
  /\ RowsFor("AI Model")[1].accuracy = 50 * 100
  /\ RowsFor("AI Model")[2].accuracy = 60 * 100
  /\ verdict = "SUCCESS"

----------------------------------------------------------------------------
(* Properties of the indicator functions, checked under SpecIndicators *)

\* C12: a series with len(series) <= 200 makes the indicator computation fail
\* with InvalidInputError: it never returns a feature matrix.
C12_ShortSeriesRejected ==
  (Len0(ohlcv) <= indicator_start) => ipc # "returned"

\* the row the running function computes for candle index t of a series
RowOf(f, series, t) ==
  IF f = "calculate_technical_indicators"
  THEN TechnicalRow(Column(series, "high"), Column(series, "low"),
                    Column(series, "close"), Column(series, "volume"), t)
  ELSE FeaturesRow(Column(series, "high"), Column(series, "low"),
                   Column(series, "close"), Column(series, "volume"), t)

\* C13 as stated: for a series longer than 200 the returned feature matrix
\* has exactly len(series) - 200 rows, row k being the row of candle 200 + k.
C13_RowsAfterWarmup ==
  (ipc = "returned" /\ Len0(ohlcv) > indicator_start) =>
    /\ Len0(features) = Len0(ohlcv) - indicator_start
    /\ \A k \in DOMAIN features :
         features[k] = RowOf(ifn, ohlcv, indicator_start + k)

\* C13 amended: for a series longer than 200, calculate_features returns
\* exactly len(series) - 200 rows, row k being the row of candle 200 + k;
\* calculate_technical_indicators returns len(series) rows, row i being the
\* row of candle i for i >= 200 and all zero for i < 200.
C13_RowsPerFunction ==
  (ipc = "returned" /\ Len0(ohlcv) > indicator_start) =>
    IF ifn = "calculate_features"
    THEN /\ DOMAIN features = 0 .. (Len0(ohlcv) - indicator_start - 1)
         /\ \A k \in DOMAIN features :
              features[k] = RowOf(ifn, ohlcv, indicator_start + k)
    ELSE /\ DOMAIN features = 0 .. (Len0(ohlcv) - 1)
         /\ \A k \in DOMAIN features :
              features[k] = (IF k >= indicator_start THEN RowOf(ifn, ohlcv, k)
                             ELSE ZeroRow)

\* calculate_features has returned three rows for a series of 203 candles,
\* the last of them not a row of neutral values
C13_Witness ==
  /\ ipc = "returned"
  /\ ifn = "calculate_features"
  /\ Len0(ohlcv) = indicator_start + 3
  /\ Len0(features) = 3
  /\ features[2] # features[0]

\* the rows computed so far: those of the candle indices 200 .. ind_i - 1
Computing == ipc \in {"loop", "returned"}
ComputedIndices == indicator_start .. (ind_i - 1)
ComputedRow(t) ==
  IF ifn = "calculate_technical_indicators" THEN features[t]
  ELSE features[t - indicator_start]

\* the positions of the row's RSI and Stochastic values (features[i, 0] and
\* features[i, 9] as 1-based tuple positions)
RSIColumn == 1
StochasticColumn == 10

\* the candle indices j whose delta closes[j] - closes[j-1] is in the 14-step
\* RSI window of index t: range(t-14, t) in calculate_technical_indicators,
\* the deltas of closes[t-14:t+1] in calculate_features
RSIWindow(t) ==
  IF ifn = "calculate_technical_indicators" THEN (t - 14) .. (t - 1)
  ELSE (t - 13) .. t

NoLossInWindow(t) ==
  \A j \in RSIWindow(t) : ohlcv[j].close >= ohlcv[j - 1].close

\* C14: at every index i >= 200 whose 14-step RSI window holds no negative
\* close delta (average loss exactly 0), the RSI feature equals 100.
C14_RSINoLoss ==
  Computing =>
    \A t \in ComputedIndices :
      NoLossInWindow(t) => ComputedRow(t)[RSIColumn] = Fin(100, 1)

\* 0 <= r <= 100
InPercentRange(r) == FloatLeq(Fin(0, 1), r) /\ FloatLeq(r, Fin(100, 1))

\* the Stochastic value before rescaling: calculate_features stores
\* stochastic / 100
StochasticOf(row) ==
  IF ifn = "calculate_technical_indicators" THEN row[StochasticColumn]
  ELSE FloatMul(row[StochasticColumn], Fin(100, 1))

\* C15: at every index i >= 200 the RSI value is in [0, 100] and the
\* Stochastic value (before rescaling) is in [0, 100], also when close[i] is
\* outside the lowest-low / highest-high range of the 14-candle window used.
C15_RSIAndStochasticInRange ==
  Computing =>
    \A t \in ComputedIndices :
      /\ InPercentRange(ComputedRow(t)[RSIColumn])
      /\ InPercentRange(StochasticOf(ComputedRow(t)))

\* the candle indices of a trailing window of w candles at index t: t-w .. t-1
\* in calculate_technical_indicators, t-w+1 .. t in calculate_features
WindowOf(t, w) ==
  IF ifn = "calculate_technical_indicators" THEN (t - w) .. (t - 1)
  ELSE (t - w + 1) .. t

\* the lookback N of the momentum feature: 5 and 10
MomentumLookback == IF ifn = "calculate_technical_indicators" THEN 5 ELSE 10

AllZero(t, w, field) == \A j \in WindowOf(t, w) : ohlcv[j][field] = 0
FlatCloses(t, w) == \A j, k \in WindowOf(t, w) : ohlcv[j].close = ohlcv[k].close
FlatRange(t, w) ==
  \A j, k \in WindowOf(t, w) : ohlcv[j].high = ohlcv[k].low

\* C16: no feature holds the result of a division by zero (+-inf or nan), and
\* on a zero denominator each guarded ratio is its neutral constant: MACD
\* proxy 0 when close[i] = 0, Bollinger position 0.5 when upper = lower,
\* momentum 0 when close[i-N] = 0, volume ratio 1.0 when the 20-candle mean
\* volume is 0, Stochastic 50 when highest = lowest; likewise the other
\* guarded ratios of the two functions (Bollinger width, SMA divergences, ATR
\* and OBV change 0) and the RSI, whose ratio rs is not computed on a zero
\* average loss.
C16_GuardedRatios ==
  Computing =>
    \A t \in ComputedIndices :
      LET row == ComputedRow(t)
          technical == ifn = "calculate_technical_indicators"
      IN  /\ \A k \in 1 .. 11 : Finite(row[k])
          /\ (~technical /\ ohlcv[t].close = 0) => row[2] = Fin(0, 1)
          /\ FlatCloses(t, 20) => row[4] = Fin(1, 2)
          /\ ohlcv[t - MomentumLookback].close = 0 => row[7] = Fin(0, 1)
          /\ AllZero(t, 20, "volume") => row[8] = Fin(1, 1)
          /\ FlatRange(t, 14) => StochasticOf(row) = Fin(50, 1)
          /\ (technical /\ AllZero(t, 20, "close")) => row[3] = Fin(0, 1)
          /\ (technical /\ AllZero(t, 50, "close")) => row[5] = Fin(0, 1)
          /\ (technical /\ AllZero(t, 200, "close")) => row[6] = Fin(0, 1)
          /\ ohlcv[t].close = 0 => row[9] = Fin(0, 1)
          /\ (~technical /\ ohlcv[t].close = 0) => row[3] = Fin(0, 1)
          /\ (~technical /\ ohlcv[t - 5].volume = 0) => row[11] = Fin(0, 1)
          /\ NoLossInWindow(t) =>
               row[RSIColumn] = (IF technical THEN Fin(100, 1) ELSE Fin(0, 1))

\* calculate_features has returned the rows of a series that starts with
\* all-zero candles: row 200 of an all-zero candle, where every denominator
\* is 0, and row 201 of a candle with a price and a volume, where the
\* momentum and OBV denominators are 0 and the other ratios are computed
C16_Witness ==
  /\ ipc = "returned"
  /\ ifn = "calculate_features"
  /\ Len0(ohlcv) >= indicator_start + 2
  /\ ohlcv[0] = ZeroCandle
  /\ ohlcv[indicator_start] = ZeroCandle
  /\ ohlcv[indicator_start + 1] = UpCandle
  /\ features[0][4] = Fin(1, 2)
  /\ features[0][8] = Fin(1, 1)
  /\ features[1][7] = Fin(0, 1)
  /\ features[1][8] = Fin(20, 1)
  /\ features[1][4] # Fin(1, 2)

----------------------------------------------------------------------------
(* Properties of the data preparation, checked under SpecPipeline *)

\* the first n candles of a series
Truncated(series, n) == [k \in 0 .. (n - 1) |-> series[k]]

\* C17: the feature row of index i depends on the candles at indices <= i
\* only: it is the row computed from the series cut after candle i, so two
\* series that agree on 0 .. i have the same row i.  The label function reads
\* closes at an anchor i and at i + look_ahead only, always with
\* i + look_ahead < len(series).  (The rows are compared on the matrix as
\* returned, before the label function runs; it leaves the matrix unchanged.)
C17_Causal ==
  /\ (ipc = "returned" /\ pc = "idle") =>
       \A t \in ComputedIndices :
         ComputedRow(t) = RowOf(ifn, Truncated(ohlcv, t + 1), t)
  /\ pc # "IndexError"
  /\ \A r \in close_reads :
       /\ r \in 0 .. (Len0(closes) - 1)
       /\ \E j \in 1 .. Len(anchors) :
            /\ anchors[j] + look_ahead < Len0(closes)
            /\ r \in {anchors[j], anchors[j] + look_ahead}

\* a finished run on a series of 203 candles whose last three candles all
\* differ: the rows of 200 and 201 were computed before candles that differ
\* from them, and the labels read the closes ahead
C17_Witness ==
  /\ ipc = "returned"
  /\ pc = "returned"
  /\ Len0(ohlcv) = indicator_start + 3
  /\ ohlcv[indicator_start + 1] # ohlcv[indicator_start]
  /\ ohlcv[indicator_start + 2] # ohlcv[indicator_start + 1]
  /\ ohlcv[indicator_start + 2].high > ohlcv[indicator_start + 1].high
  /\ Len(labels) >= 2
  /\ indicator_start + 2 \in close_reads

\* the label as a function of the anchor's close c, the close f one horizon
\* later and the threshold th: the percent return (f - c) / c * 100 against
\* +-th; with c = 0 the return is +inf (BUY), -inf (SELL) or nan (HOLD)
LabelFromCloses(c, f, th) ==
  IF c > 0
  THEN (IF (f - c) * 100 * th[2] > th[1] * c THEN BUY
        ELSE IF (f - c) * 100 * th[2] < (-th[1]) * c THEN SELL
        ELSE HOLD)
  ELSE IF c = 0
  THEN (IF f > 0 THEN BUY ELSE IF f < 0 THEN SELL ELSE HOLD)
  ELSE (IF (f - c) * 100 * th[2] < th[1] * c THEN BUY
        ELSE IF (f - c) * 100 * th[2] > (-th[1]) * c THEN SELL
        ELSE HOLD)

\* C22: the outputs are functions of the candle series and the
\* configuration alone, so a second run on the same input returns the same
\* outputs: the matrix returned is the row-by-row recomputation from the
\* series, the anchors and windows are those of the ranges, and every label
\* is the function LabelFromCloses of close[anchor], close[anchor + horizon]
\* and the threshold -- two anchors (of this or of any other series) with
\* the same two closes carry the same label
C22_Deterministic ==
  /\ (ipc = "returned" /\ pc = "idle") =>
       /\ ind_i = Max(indicator_start, Len0(ohlcv))
       /\ \A t \in ComputedIndices : ComputedRow(t) = RowOf(ifn, ohlcv, t)
  /\ pc \in {"loop", "returned"} =>
       /\ closes = Column(ohlcv, "close")
       /\ \A j \in 1 .. Len(labels) :
            /\ anchors[j] = LoopRange(fn, Len0(closes), seq_length, look_ahead).start + j - 1
            /\ labels[j] = LabelFromCloses(closes[anchors[j]],
                                           closes[anchors[j] + look_ahead],
                                           Threshold(fn))
       /\ \A j \in 1 .. Len(sequences) :
            sequences[j] = [k \in 1 .. seq_length |-> anchors[j] - seq_length + k - 1]
       /\ \A j1, j2 \in 1 .. Len(labels) :
            (/\ closes[anchors[j1]] = closes[anchors[j2]]
             /\ closes[anchors[j1] + look_ahead] = closes[anchors[j2] + look_ahead])
              => labels[j1] = labels[j2]

\* a finished data preparation that labelled a rise BUY and the flat pair
\* of closes after it HOLD, whatever the label before it
C22_Witness ==
  /\ ipc = "returned"
  /\ pc = "returned"
  /\ Len0(features) > 0
  /\ Len(labels) = 2
  /\ closes[anchors[1] + look_ahead] > closes[anchors[1]]
  /\ closes[anchors[2] + look_ahead] = closes[anchors[2]]
  /\ labels[1] = BUY
  /\ labels[2] = HOLD

----------------------------------------------------------------------------
(* Properties of train_model over the timeframe map, checked under SpecAlign *)

\* C25: once train_model has cut features and labels to min_len, X and y
\* have max(0, len(ohlcv) - 200 - lookahead) entries each, X[k] is the
\* feature row of candle 200 + k and y[k] the label of the anchor 200 + k
\* (its close against the close lookahead candles later), for every
\* lookahead of TIMEFRAMES; create_labels reads no close outside the series
C25_AlignedSamples ==
  /\ pc # "IndexError"
  /\ close_reads \subseteq 0 .. (Len0(ohlcv) - 1)
  /\ apc = "aligned" =>
       LET count == Max(0, Len0(ohlcv) - indicator_start - look_ahead)
       IN  /\ \E timeframe \in DOMAIN TIMEFRAMES : look_ahead = TIMEFRAMES[timeframe]
           /\ Len0(train_X) = count
           /\ Len0(train_y) = count
           /\ \A k \in 0 .. (count - 1) :
                /\ train_X[k] = RowOf(ifn, ohlcv, indicator_start + k)
                /\ anchors[k + 1] = indicator_start + k
                /\ train_y[k]
                     = LabelFromCloses(ohlcv[indicator_start + k].close,
                                       ohlcv[indicator_start + k + look_ahead].close,
                                       LabelsThreshold)

\* train_model has cut the 290 feature rows of a 490-candle series to the
\* two labels of the 24h timeframe, the rows and labels of candles 200, 201
C25_Witness ==
  /\ apc = "aligned"
  /\ look_ahead = TIMEFRAMES["24h"]
  /\ Len0(features) = look_ahead + 2
  /\ Len0(train_X) = 2
  /\ Len0(train_y) = 2
  /\ train_y[0] # train_y[1]
  /\ train_X[0] # train_X[1]
  /\ train_X[1] # features[Len0(features) - 1]

----------------------------------------------------------------------------
(* Properties of the price trainers' create_sequences, checked under SpecPrice *)

\* C26: create_sequences(data, seq_length) of the price trainers returns
\* max(0, len(data) - seq_length) pairs; pair i (from 0) has the window
\* data[i .. i+seq_length-1] and as target the close at index i+seq_length,
\* which is inside the array, directly after the window and not in it
C26_WindowThenTarget ==
  LET n == Len0(price_data)
      s == price_seq_length
  IN  /\ price_pc # "IndexError"
      /\ Len(xs) = Len(ys)
      /\ price_pc = "returned" => Len(xs) = Max(0, n - s)
      /\ \A j \in 1 .. Len(xs) :
           /\ xs[j] = [k \in 1 .. s |-> (j - 1) + (k - 1)]
           /\ ys[j].index = (j - 1) + s
           /\ ys[j].index <= n - 1
           /\ ys[j].value = price_data[(j - 1) + s]
           /\ \A k \in 1 .. Len(xs[j]) : xs[j][k] < ys[j].index
           /\ xs[j] # <<>> => ys[j].index = xs[j][Len(xs[j])] + 1

\* a finished call with seq_length 60 on 63 candles: three pairs, the last
\* target being the last candle
C26_Witness ==
  /\ price_pc = "returned"
  /\ price_seq_length = TRANSFORMER_SEQ_LENGTH
  /\ Len(xs) = 3
  /\ ys[3].index = Len0(price_data) - 1
  /\ ys[1].value # ys[2].value

----------------------------------------------------------------------------
(* Properties of the training loop of train_lstm_model, checked under SpecLstm *)

\* the largest validation accuracy of the epochs completed
MaxValAcc == MaxSeq(val_history)
\* the first epoch (from 1) that reached it
FirstBest == CHOOSE e \in 1 .. Len(val_history) :
               /\ val_history[e] = MaxValAcc
               /\ \A d \in 1 .. (e - 1) : val_history[d] < MaxValAcc

\* C27: after every epoch best_val_acc is the largest validation accuracy
\* seen and the saved checkpoint is that of the first epoch that reached
\* it; the statement after the loop finds model_path assigned and a
\* checkpoint saved, whatever the validation accuracies were
C27_BestCheckpoint ==
  /\ tpc # "UnboundLocalError"
  /\ val_history # <<>> =>
       /\ best_val_acc = MaxValAcc
       /\ checkpoint = FirstBest
  /\ tpc = "done" => (model_path # "unbound" /\ checkpoint # 0)

----------------------------------------------------------------------------
(* Properties of the 24h trainer, checked under SpecTrainer *)

\* C28: history_prices never holds more than 1000 prices; it holds the
\* prices fetched last, in the order fetched: with f prices fetched so far
\* it is the fetch numbers max(1, f - 999) .. f
C28_LastThousand ==
  /\ Len(history_prices) <= HISTORY_LIMIT
  /\ Len(history_prices) = Min(fetched, HISTORY_LIMIT)
  /\ \A k \in 1 .. Len(history_prices) :
       history_prices[k] = fetched - Len(history_prices) + k

\* the 1001st and 1002nd prices have arrived: the list holds 1000 prices
\* from the third fetched to the last
C28_Witness ==
  /\ fetched = HISTORY_LIMIT + 2
  /\ Len(history_prices) = HISTORY_LIMIT
  /\ history_prices[1] = 3
  /\ history_prices[HISTORY_LIMIT] = HISTORY_LIMIT + 2

\* C29: a train_step whose fetch fails changes neither history_prices nor
\* is_fitted nor the model file, and leaves the loop of main running
C29_FailedFetchFrame ==
  [][step_outcome' = "fetch_failed" =>
       /\ history_prices' = history_prices
       /\ is_fitted' = is_fitted
       /\ model_file' = model_file
       /\ fetched' = fetched
       /\ loop_pc' = "running"]_vars

\* a fetch has failed after the model was trained and exported
C29_Witness ==
  /\ step_outcome = "fetch_failed"
  /\ loop_pc = "running"
  /\ is_fitted
  /\ Len(history_prices) > MIN_HISTORY
  /\ model_file = [content |-> "onnx", version |-> fetched]

----------------------------------------------------------------------------
(* Properties of the end-to-end scenarios, checked under SpecScenario *)

\* the run prepares a series whose close never changes
ConstantScenario ==
  /\ Len0(ohlcv) = ScenarioConfig.length
  /\ \A k \in DOMAIN ohlcv : ohlcv[k].close = ohlcv[0].close

\* the valid anchors of the label function that runs after ifn
ScenarioAnchors ==
  IF ifn = "calculate_features"
  THEN LabelsRange(ScenarioConfig.length, look_ahead)
  ELSE SequencesRange(ScenarioConfig.length, seq_length, look_ahead)

\* C18: on a constant series of 300 candles at a positive price (horizon 6,
\* seq_length 30 for create_sequences) neither the indicator function nor
\* the label function raises; every indicator of every row 200 .. 299 is
\* finite, with zero band width, band position 0.5, zero ATR and
\* stochastic 50 on the flat windows; and every valid anchor is labelled HOLD with a forward
\* return of exactly 0
C18_ConstantSeriesHold ==
  ConstantScenario =>
    /\ ipc # "IndexError"
    /\ pc # "IndexError"
    /\ Computing =>
         \A t \in ComputedIndices :
           /\ \A k \in 1 .. 11 : Finite(ComputedRow(t)[k])
           /\ ComputedRow(t)[3] = Fin(0, 1)
           /\ ComputedRow(t)[4] = Fin(1, 2)
           /\ ComputedRow(t)[9] = Fin(0, 1)
           /\ StochasticOf(ComputedRow(t)) = Fin(50, 1)
    /\ ipc = "returned" => ind_i = ScenarioConfig.length
    /\ \A j \in 1 .. Len(labels) :
         LET future_return == FutureReturn(closes[anchors[j]],
                                           closes[anchors[j] + look_ahead])
         IN  /\ labels[j] = HOLD
             /\ future_return.kind = "fin"
             /\ future_return.num = 0
    /\ pc = "returned" =>
         /\ Len(labels) = ScenarioAnchors.stop - ScenarioAnchors.start
         /\ \A a \in ScenarioAnchors.start .. (ScenarioAnchors.stop - 1) :
              \E j \in 1 .. Len(anchors) : anchors[j] = a

\* a training run on a constant series has computed the rows 200 .. 299 with
\* calculate_technical_indicators and create_sequences has labelled the
\* 64 anchors 230 .. 293
C18_Witness ==
  /\ ConstantScenario
  /\ ifn = "calculate_technical_indicators"
  /\ ipc = "returned"
  /\ pc = "returned"
  /\ ohlcv[0].volume = 0
  /\ Len(labels) = ScenarioConfig.length - indicator_start
                     - ScenarioConfig.seq_length - ScenarioConfig.horizon
  /\ \A j \in 1 .. Len(labels) : labels[j] = HOLD

\* create_sequences runs on a strictly increasing close array
RisingScenario ==
  /\ fn = "create_sequences"
  /\ Len0(closes) = ScenarioConfig.length
  /\ \A k \in 1 .. (Len0(closes) - 1) : closes[k - 1] < closes[k]

\* the close rises by more than 0.15 % from the anchor a to a + look_ahead
RisesAboveThreshold(a) ==
  (closes[a + look_ahead] - closes[a]) * 100 * SequencesThreshold[2]
    > SequencesThreshold[1] * closes[a]

\* C19 as stated: on a strictly increasing series of 300 closes every valid
\* anchor of create_sequences is labelled BUY
C19_RisingAllBuy ==
  RisingScenario => \A j \in 1 .. Len(labels) : labels[j] = BUY

\* C19: on a strictly increasing series of 300 closes (seq_length 30,
\* horizon 6, threshold 0.15 %) create_sequences labels a valid anchor BUY
\* when the close rises by more than 0.15 % over the horizon and HOLD
\* otherwise, never SELL; all 64 anchors 230 .. 293 are labelled
C19_RisingLabels ==
  RisingScenario =>
    /\ pc # "IndexError"
    /\ \A j \in 1 .. Len(labels) :
         /\ labels[j] # SELL
         /\ labels[j] = (IF RisesAboveThreshold(anchors[j]) THEN BUY ELSE HOLD)
    /\ pc = "returned" =>
         /\ Len(labels) = ScenarioAnchors.stop - ScenarioAnchors.start
         /\ (\A a \in ScenarioAnchors.start .. (ScenarioAnchors.stop - 1) :
               RisesAboveThreshold(a))
              => \A j \in 1 .. Len(labels) : labels[j] = BUY

\* create_sequences has returned the 64 labels of a rising series whose
\* first anchors rise by more than 0.15 % (BUY) and whose later anchors, at
\* higher closes, do not (HOLD)
C19_Witness ==
  /\ RisingScenario
  /\ pc = "returned"
  /\ Len(labels) = ScenarioConfig.length - indicator_start
                     - ScenarioConfig.seq_length - ScenarioConfig.horizon
  /\ labels[1] = BUY
  /\ labels[Len(labels)] = HOLD

====
